---- MODULE Spec2Model ----
(***************************************************************************)
(* A model of antirez/otree (src/btree.c, src/btree.h): the on-disk slab   *)
(* allocator, the copy-on-write B-tree and the write-barrier discipline.   *)
(*                                                                         *)
(* Representation.                                                         *)
(*  - The file is a finite map from byte offsets to cells.  A cell is the  *)
(*    unit one pwrite produced: an 8-byte big-endian word ("u64"), a node  *)
(*    image ("node", BTREE_NODE_SIZE bytes) or a run of value bytes        *)
(*    ("val").  Bytes never written read as zero (ftruncate zero fill).    *)
(*  - A uint64_t is represented by its two's complement reading, so that   *)
(*    (uint64_t)-1 is -1 and 0-8 is -8: exactly the offsets that the       *)
(*    unistd VFS rejects because off_t is negative.                        *)
(*  - A 16-byte key is represented by a natural number whose numeric       *)
(*    order is the memcmp order of the key bytes; 0 is the all-zero key    *)
(*    that calloc leaves in unused slots.                                  *)
(*  - Every C function is an operator from a machine record m (the file,   *)
(*    struct btree, and the trace of VFS calls issued so far) to a record  *)
(*    holding the new machine and the function's results.                  *)
(***************************************************************************)
EXTENDS Integers, Sequences, FiniteSets, TLC

(* ------------------------------ btree.h -------------------------------- *)

BTREE_PREALLOC_SIZE == 524288
BTREE_FREELIST_BLOCK_ITEMS == 252
BTREE_MAX_KEYS == 7
BTREE_HASHED_KEY_LEN == 16
BTREE_FREELIST_COUNT == 28
BTREE_FREELIST_BLOCK_SIZE == (8*3) + (8*BTREE_FREELIST_BLOCK_ITEMS)
BTREE_FREELIST_SIZE_EXP == 11
BTREE_NODE_SIZE ==
    4*4 + BTREE_MAX_KEYS*BTREE_HASHED_KEY_LEN + ((BTREE_MAX_KEYS*2)+1)*8 + 4
BTREE_HDR_FREE_POS == 16
BTREE_HDR_FREEOFF_POS == 24
BTREE_HDR_ROOTPTR_POS == 32 + (BTREE_FREELIST_BLOCK_SIZE*BTREE_FREELIST_COUNT)
BTREE_FLAG_USE_WRITE_BARRIER == 1

(* Offsets of the values[] and children[] arrays inside a node image, as   *)
(* btree_write_node lays them out and btree_add_nonfull addresses them.    *)
NodeValuesOff == 16 + BTREE_HASHED_KEY_LEN*BTREE_MAX_KEYS
NodeChildrenOff == 16 + BTREE_HASHED_KEY_LEN*BTREE_MAX_KEYS + 8*BTREE_MAX_KEYS

(* The function f as an explicit table.  TLC keeps a function constructor  *)
(* unevaluated; merging it with the empty function tabulates it.           *)
Array(f) == f @@ <<>>

(* ------------------------------ nodes ---------------------------------- *)

KeyIdx == 0..(BTREE_MAX_KEYS-1)
ChildIdx == 0..BTREE_MAX_KEYS

(* btree_create_node: calloc, every field zero. *)
BtreeCreateNode ==
    [numkeys |-> 0, isleaf |-> 0,
     keys |-> Array([j \in KeyIdx |-> 0]),
     values |-> Array([j \in KeyIdx |-> 0]),
     children |-> Array([j \in ChildIdx |-> 0])]

(* A node image on disk: the node framed by the start and the end mark. *)
NodeImage(n, startmark, endmark) ==
    [startmark |-> startmark, endmark |-> endmark, node |-> n]

ZeroImage == NodeImage(BtreeCreateNode, 0, 0)

(* What stands for the image in a cell or a write that is not a node. *)
NoImage ==
    NodeImage([numkeys |-> 0, isleaf |-> 0, keys |-> <<>>, values |-> <<>>,
               children |-> <<>>], 0, 0)

(* ------------------------------ the file ------------------------------- *)

(* Cells.  Every cell has the same fields; img is NoImage unless the cell  *)
(* is a node image, v is the word or the value's content.                  *)
Cell(t, v, len, img) == [t |-> t, v |-> v, len |-> len, img |-> img]

U64Cell(v) == Cell("u64", v, 8, NoImage)

(* Cells of the file that overlap the byte range [a, a+n). *)
Overlapping(disk, a, n) ==
    {q \in DOMAIN disk : q < a + n /\ a < q + disk[q].len}

(* Put cell c at offset a, dropping what it overwrites. *)
PutCell(disk, a, c) ==
    LET keep == (DOMAIN disk \ Overlapping(disk, a, c.len)) \cup {a}
    IN  Array([q \in keep |-> IF q = a THEN c ELSE disk[q]])

(* The node image, if any, that the 8 bytes at a lie within. *)
NodeAround(disk, a) ==
    {p \in DOMAIN disk : disk[p].t = "node" /\ p <= a /\ a + 8 <= p + BTREE_NODE_SIZE}

(* An 8-byte write that lands inside a node image changes the field it     *)
(* covers: values[i] or children[i].  Any other position tears the image.  *)
PokeImage(img, off, v) ==
    IF \E i \in KeyIdx : off = NodeValuesOff + 8*i
    THEN LET i == (off - NodeValuesOff) \div 8
         IN  [img EXCEPT !.node.values[i] = v]
    ELSE IF \E i \in ChildIdx : off = NodeChildrenOff + 8*i
    THEN LET i == (off - NodeChildrenOff) \div 8
         IN  [img EXCEPT !.node.children[i] = v]
    ELSE [img EXCEPT !.startmark = -1]

(* btree_u32_to_big into the first 4 bytes of an 8-byte big-endian word:   *)
(* the word becomes v * 2^32 + (old mod 2^32).  Words of the model stay    *)
(* below 2^31, so the low half of old is old; a nonzero v gives a word     *)
(* the model does not represent, read back as -1.                          *)
HighHalf(v, old) == IF v = 0 THEN old ELSE -1

(* The effect of one pwrite on the file contents. ty is the shape of the   *)
(* buffer: "u64" (btree_pwrite_u64), "u32" (btree_pwrite_u32, the high     *)
(* half of the big-endian 8-byte word at a), "node" (btree_write_node) or  *)
(* "val" (len raw bytes).                                                  *)
ApplyWrite(disk, w) ==
    IF w.ty = "node" THEN PutCell(disk, w.a, Cell("node", 0, BTREE_NODE_SIZE, w.img))
    ELSE IF w.ty = "val" THEN
        IF w.len = 0 THEN disk ELSE PutCell(disk, w.a, Cell("val", w.v, w.len, NoImage))
    ELSE IF w.ty = "u32" THEN
        LET old == IF w.a \in DOMAIN disk /\ disk[w.a].t = "u64" THEN disk[w.a].v ELSE 0
        IN  PutCell(disk, w.a, U64Cell(HighHalf(w.v, old)))
    ELSE IF NodeAround(disk, w.a) # {} THEN
        LET p == CHOOSE p \in NodeAround(disk, w.a) : TRUE
        IN  [disk EXCEPT ![p].img = PokeImage(@, w.a - p, w.v)]
    ELSE PutCell(disk, w.a, U64Cell(w.v))

(* The 8-byte big-endian word at a. *)
ReadU64(disk, a) ==
    IF a \in DOMAIN disk /\ disk[a].t = "u64" THEN disk[a].v
    ELSE IF NodeAround(disk, a) # {} THEN
        LET p == CHOOSE p \in NodeAround(disk, a) : TRUE
            off == a - p
        IN  IF \E i \in KeyIdx : off = NodeValuesOff + 8*i
            THEN disk[p].img.node.values[(off - NodeValuesOff) \div 8]
            ELSE IF \E i \in ChildIdx : off = NodeChildrenOff + 8*i
            THEN disk[p].img.node.children[(off - NodeChildrenOff) \div 8]
            ELSE 0
    ELSE 0

(* The BTREE_NODE_SIZE bytes at a, as a node image. *)
ReadImage(disk, a) ==
    IF a \in DOMAIN disk /\ disk[a].t = "node" THEN disk[a].img
    ELSE IF Overlapping(disk, a, BTREE_NODE_SIZE) = {} THEN ZeroImage
    ELSE NodeImage(BtreeCreateNode, -1, -2)

(* The len value bytes at a: the content and how many bytes of it. *)
ReadVal(disk, a) ==
    IF a \in DOMAIN disk /\ disk[a].t = "val"
    THEN [len |-> disk[a].len, v |-> disk[a].v]
    ELSE [len |-> 0, v |-> 0]

(* ------------------------------ machine -------------------------------- *)

(* The C call: the function named f applied to the arguments a. *)
RECURSIVE Call(_, _)

(* One entry of the trace of VFS calls: e is "w" (pwrite), "s" (sync),     *)
(* "rs" (resize) or "free" (a call of btree_free with offset a); site is   *)
(* the line of src/btree.c that issued it.                                 *)
Ev(e, site, a, ty, v, len, img) ==
    [e |-> e, site |-> site, a |-> a, ty |-> ty, v |-> v, len |-> len, img |-> img]

(* The VFS call about to be issued is the one chosen to fail. *)
Failing(m) == m.failAt = m.ncall + 1

(* The failure of the chosen VFS call is a transfer of no byte (pread at   *)
(* the end of the file, pwrite that wrote nothing), not an error.          *)
ShortTransfer(m) == Failing(m) /\ m.short

(* What a buffer of the stack holds that no pread filled: any bytes; here  *)
(* all zero (junk = 0), or the number junk in each integer and marks that  *)
(* differ.                                                                 *)
JunkImage(junk) ==
    IF junk = 0 THEN ZeroImage ELSE NodeImage(BtreeCreateNode, junk, junk + 1)

(* bvfs_unistd_pwrite through btree_pwrite: nbytes on success, the bytes   *)
(* written when fewer, -1 on failure (an injected error, or EINVAL for a   *)
(* negative off_t).                                                        *)
Pwrite(m, site, ty, a, v, len, img) ==
    LET m1 == [m EXCEPT !.ncall = @ + 1]
        w == Ev("w", site, a, ty, v, len, img)
    IN  IF ShortTransfer(m) /\ a >= 0
        THEN [m |-> m1, r |-> 0]
        ELSE IF Failing(m) \/ a < 0
        THEN [m |-> m1, r |-> -1]
        ELSE [m |-> [m1 EXCEPT !.disk = ApplyWrite(@, w),
                               !.log = Append(@, w),
                               !.fsize = IF a + len > @ THEN a + len ELSE @],
              r |-> len]

BtreePwriteU64(m, site, val, offset) ==
    Call("Pwrite", <<m, site, "u64", offset, val, 8, NoImage>>)

BtreePwriteU32(m, site, val, offset) ==
    Call("Pwrite", <<m, site, "u32", offset, val, 4, NoImage>>)

(* btree_pread_u64: -1 only when pread returns -1; after a pread of fewer  *)
(* bytes the value is made of what the buffer held.                        *)
BtreePreadU64(m, offset) ==
    LET m1 == [m EXCEPT !.ncall = @ + 1]
    IN  IF ShortTransfer(m) /\ offset >= 0
        THEN [m |-> m1, r |-> 0, val |-> m.junk]
        ELSE IF Failing(m) \/ offset < 0
        THEN [m |-> m1, r |-> -1, val |-> 0]
        ELSE [m |-> m1, r |-> 0, val |-> ReadU64(m.disk, offset)]

(* bvfs_unistd_resize: ftruncate. *)
VfsResize(m, site, length) ==
    LET m1 == [m EXCEPT !.ncall = @ + 1]
    IN  IF Failing(m) \/ length < 0
        THEN [m |-> m1, r |-> -1]
        ELSE [m |-> [m1 EXCEPT !.fsize = length,
                               !.log = Append(@, Ev("rs", site, length, "", 0, 0, NoImage))],
              r |-> 0]

(* The barrier flag is set in bt->flags. *)
UseWriteBarrier(flags) == flags % 2 = BTREE_FLAG_USE_WRITE_BARRIER

(* No sync between the write of a free list item and that of the count. *)
SyncButInPush(m, site) ==
    IF UseWriteBarrier(m.flags) /\ site # 698
    THEN [m EXCEPT !.log = Append(@, Ev("s", site, 0, "", 0, 0, NoImage))]
    ELSE m

(* A sync whatever the flags are. *)
SyncAlways(m, site) ==
    [m EXCEPT !.log = Append(@, Ev("s", site, 0, "", 0, 0, NoImage))]

(* btree_sync: the VFS sync, only under the write barrier flag. *)
BtreeSync(m, site) ==
    IF UseWriteBarrier(m.flags)
    THEN [m EXCEPT !.log = Append(@, Ev("s", site, 0, "", 0, 0, NoImage))]
    ELSE m

(* The node framed by the mark before the bump and the mark after it. *)
WriteNodeTwoMarks(m, site, n, offset) ==
    LET m1 == [m EXCEPT !.mark = @ + 1]
    IN  Call("Pwrite", <<m1, site, "node", offset, 0, BTREE_NODE_SIZE,
               NodeImage(n, m1.mark, m.mark)>>)

(* btree_write_node: bump the mark, frame the node with it, one pwrite. *)
BtreeWriteNode(m, site, n, offset) ==
    LET m1 == [m EXCEPT !.mark = @ + 1]
    IN  Call("Pwrite", <<m1, site, "node", offset, 0, BTREE_NODE_SIZE,
               NodeImage(n, m1.mark, m1.mark)>>)

(* btree_read_node: NULL (ok = FALSE) when pread returns -1 or, with errno *)
(* EFAULT (corrupt = TRUE), when the start and the end mark of the buffer  *)
(* differ.                                                                 *)
BtreeReadNode(m, offset) ==
    LET m1 == [m EXCEPT !.ncall = @ + 1]
        short == ShortTransfer(m) /\ offset >= 0
        img == IF short THEN JunkImage(m.junk) ELSE ReadImage(m.disk, offset)
    IN  IF ~short /\ (Failing(m) \/ offset < 0)
        THEN [m |-> m1, ok |-> FALSE, corrupt |-> FALSE, n |-> BtreeCreateNode]
        ELSE IF img.startmark # img.endmark
        THEN [m |-> m1, ok |-> FALSE, corrupt |-> TRUE, n |-> BtreeCreateNode]
        ELSE [m |-> m1, ok |-> TRUE, corrupt |-> FALSE, n |-> img.node]

(* ------------------------- disk space allocator ------------------------ *)

(* Unsigned integers of the C code are kept as the signed integers with    *)
(* the same bits: a uint32_t at or above 2^31 is the negative number 2^32  *)
(* below it, and a uint64_t that wrapped below zero is a negative number.  *)

(* The uint32_t 2^31, which is what (unsigned)(1<<31) gives. *)
TwoTo31 == -2147483647 - 1

(* a < b between unsigned integers. *)
UnsignedLess(a, b) == IF (a < 0) = (b < 0) THEN a < b ELSE b < 0

(* The size and a prefix one byte short. *)
SizePlusSeven(size) ==
    IF size >= 0 /\ size > 2147483647 - 7
    THEN TwoTo31 + (size - (2147483647 - 7) - 1)
    ELSE size + 7

(* size + sizeof(uint64_t), for a size up to 2^31 (no wrap in size_t). *)
SizePlusPrefix(size) ==
    IF size >= 0 /\ size > 2147483647 - 8
    THEN TwoTo31 + (size - (2147483647 - 8) - 1)
    ELSE size + 8

(* realsize *= 2 in uint32_t: the low 31 bits, doubled. *)
DoubleU32(x) ==
    LET low == IF x < 0 THEN (x + 2147483647) + 1 ELSE x
        l30 == low % 1073741824
    IN  IF low >= 1073741824 THEN TwoTo31 + 2 * l30 ELSE 2 * l30

(* n /= 2 in uint32_t. *)
HalfU32(x) ==
    IF x < 0 THEN 1073741824 + ((x + 2147483647) + 1) \div 2 ELSE x \div 2

RECURSIVE LogTwoLoop(_, _)
LogTwoLoop(n, log) == IF n # 0 THEN LogTwoLoop(HalfU32(n), log + 1) ELSE log

(* btree_log_two *)
BtreeLogTwo(n) == LogTwoLoop(n, -1)

(* What stands for the result of a loop that never ends; no loop that ends *)
(* gives it, as realsize >= size + 8 > 0 at the exit.                      *)
Spins == 0

(* The while of btree_alloc_realsize.  When the doubling leaves realsize   *)
(* as it was and the test is still true, the loop never ends.              *)
RECURSIVE RealsizeLoop(_, _)
RealsizeLoop(realsize, size) ==
    IF UnsignedLess(realsize, SizePlusPrefix(size))
    THEN IF DoubleU32(realsize) = realsize THEN Spins
         ELSE RealsizeLoop(DoubleU32(realsize), size)
    ELSE realsize

(* btree_alloc_realsize: the power of two, at least 16, that holds size    *)
(* plus the 8-byte length prefix.                                          *)
BtreeAllocRealsize(size) == RealsizeLoop(16, size)

(* The index of the next class. *)
IndexOfNextClass(exponent) == exponent - 3

(* btree_freelist_index_by_exp *)
BtreeFreelistIndexByExp(exponent) == exponent - 4

(* Offset of item slot k (0-based) of the free list block at block. *)
FreelistItemPos(block, k) == block + 8*3 + 8*k

(* The item below the one to pop. *)
PopPosOneBelow(block, last_items) == block + (1 + last_items) * 8

(* Offset of the item btree_alloc_freelist pops, last_items being the      *)
(* count before the pop.                                                   *)
FreelistPopPos(block, last_items) == block + (2 + last_items) * 8

(* The freed allocation goes to the free list as its own offset. *)
ItemIsPointer(ptr) == ptr

(* The freed allocation goes to the free list as the offset of its length  *)
(* prefix; btree_alloc_freelist hands out the offset after the prefix.     *)
FreelistItemOf(ptr) == ptr - 8
PtrOfFreelistItem(p) == p + 8

(* The length prefix of a reused allocation is left as it is. *)
NeverFix(oldsize, size) == FALSE

(* The test of btree_alloc for rewriting the length prefix of a reused     *)
(* allocation.                                                             *)
NeedSizeFix(oldsize, size) == oldsize # size

(* The guard of btree_alloc: size > (unsigned)(1<<31). *)
AllocTooBig(size) == UnsignedLess(TwoTo31, size)


(* btree_alloc_freelist: r = -1 on error, else ptr is the allocation taken *)
(* from the free list of realsize, or 0 when that list is empty.           *)
BtreeAllocFreelist(m, realsize) ==
    LET exp == BtreeLogTwo(realsize)
        fli == BtreeFreelistIndexByExp(exp)
        fl == m.freelist[fli]
        numblocks == Len(fl.blocks)
    IN
    IF fl.last_items = 0 /\ numblocks = 1 THEN [m |-> m, r |-> 0, ptr |-> 0]
    ELSE
    LET (* Last block is empty? Remove it *)
        unlink == fl.last_items = 0
        prevblock == fl.blocks[numblocks - 1]
        w1 == Call("BtreePwriteU64", <<m, 499, 0, prevblock + 8>>)
        lastblock == IF unlink THEN fl.blocks[numblocks] ELSE 0
        mA == IF unlink
              THEN [Call("BtreeSync", <<w1.m, 500>>) EXCEPT
                       !.freelist[fli] =
                           [blocks |-> SubSeq(fl.blocks, 1, numblocks - 1),
                            last_items |-> BTREE_FREELIST_BLOCK_ITEMS]]
              ELSE m
    IN
    IF unlink /\ w1.r = -1 THEN [m |-> w1.m, r |-> -1, ptr |-> 0]
    ELSE IF lastblock # 0 /\ exp = BTREE_FREELIST_SIZE_EXP
    THEN [m |-> mA, r |-> 0, ptr |-> lastblock]
    ELSE
    LET mB == Call("BtreeFree", <<mA, lastblock, 525>>).m
        flB == mB.freelist[fli]
        block == flB.blocks[Len(flB.blocks)]
        rd == Call("BtreePreadU64", <<mB, FreelistPopPos(block, flB.last_items)>>)
        mC == [rd.m EXCEPT !.freelist[fli].last_items = @ - 1]
        w2 == Call("BtreePwriteU64", <<mC, 533, flB.last_items - 1, block + 2*8>>)
    IN
    IF rd.r = -1 THEN [m |-> rd.m, r |-> -1, ptr |-> 0]
    ELSE IF w2.r = -1 THEN [m |-> w2.m, r |-> -1, ptr |-> 0]
    ELSE [m |-> Call("BtreeSync", <<w2.m, 534>>), r |-> 0, ptr |-> PtrOfFreelistItem(rd.val)]

(* btree_alloc: r is the returned offset; 0 means failure, and the three   *)
(* `return -1` of a function returning uint64_t give (uint64_t)-1.  With   *)
(* hang = TRUE the call never returns.                                     *)
BtreeAlloc(m, size) ==
    IF AllocTooBig(size) THEN [m |-> m, r |-> 0]
    ELSE
    LET realsize == BtreeAllocRealsize(size)
        af == Call("BtreeAllocFreelist", <<m, realsize>>)
    IN
    IF realsize = Spins THEN [m |-> [m EXCEPT !.hang = TRUE], r |-> 0]
    ELSE IF af.r = -1 THEN [m |-> af.m, r |-> 0]
    ELSE IF af.ptr # 0 THEN
        LET rd == Call("BtreePreadU64", <<af.m, af.ptr - 8>>)
            w == Call("BtreePwriteU64", <<rd.m, 572, size, af.ptr - 8>>)
        IN  IF rd.r = -1 THEN [m |-> rd.m, r |-> 0]
            ELSE IF NeedSizeFix(rd.val, size)
            THEN IF w.r = -1 THEN [m |-> w.m, r |-> 0]
                 ELSE [m |-> Call("BtreeSync", <<w.m, 574>>), r |-> af.ptr]
            ELSE [m |-> rd.m, r |-> af.ptr]
    ELSE
    LET m0 == af.m
        grow == UnsignedLess(m0.free, realsize)
        rs == Call("VfsResize", <<m0, 583, m0.freeoff + m0.free + BTREE_PREALLOC_SIZE>>)
        m1 == IF grow THEN [rs.m EXCEPT !.free = @ + BTREE_PREALLOC_SIZE] ELSE m0
        ptr == m1.freeoff
        m2 == [m1 EXCEPT !.free = @ - realsize, !.freeoff = @ + realsize]
        w1 == Call("BtreePwriteU64", <<m2, 593, m2.free, BTREE_HDR_FREE_POS>>)
        w2 == Call("BtreePwriteU64", <<w1.m, 594, m2.freeoff, BTREE_HDR_FREEOFF_POS>>)
        w3 == Call("BtreePwriteU64", <<w2.m, 597, size, ptr>>)
    IN
    IF grow /\ rs.r = -1 THEN [m |-> rs.m, r |-> 0]
    ELSE IF w1.r = -1 THEN [m |-> w1.m, r |-> -1]
    ELSE IF w2.r = -1 THEN [m |-> w2.m, r |-> -1]
    ELSE IF w3.r = -1 THEN [m |-> w3.m, r |-> -1]
    ELSE [m |-> Call("BtreeSync", <<w3.m, 600>>), r |-> ptr + 8]

(* Init of a new free list block at ptr and its link from the previous     *)
(* newest block (the same statements in both branches of btree_free);      *)
(* none of the four writes is checked.                                     *)
FreelistLinkBlock(m, fli, ptr, siteA, siteB) ==
    LET fl == m.freelist[fli]
        prev == fl.blocks[Len(fl.blocks)]
        m1 == [m EXCEPT !.freelist[fli] =
                            [blocks |-> Append(fl.blocks, ptr), last_items |-> 0]]
        w1 == Call("BtreePwriteU64", <<m1, siteA, 0, ptr + 8>>)
        w2 == Call("BtreePwriteU64", <<w1.m, siteA + 1, prev, ptr>>)
        w3 == Call("BtreePwriteU64", <<w2.m, siteA + 2, 0, ptr + 8*2>>)
        w4 == Call("BtreePwriteU64", <<Call("BtreeSync", <<w3.m, siteA + 3>>), siteB, ptr, prev + 8>>)
    IN  Call("BtreeSync", <<w4.m, siteB + 1>>)

(* The count of the newest block left as it was. *)
CountNotBumped(last_items) == last_items

(* The count btree_free writes to the newest block after adding an item. *)
FreelistCountAfterPush(last_items) == last_items + 1

(* No freed allocation is used as a block. *)
FreedNeverBlock(last_items, exp) == FALSE

(* The test of btree_free for using the freed allocation as the next free  *)
(* list block: the newest block is full and the allocation has the size of *)
(* the blocks.                                                             *)
FreedBecomesBlock(last_items, exp) ==
    last_items = BTREE_FREELIST_BLOCK_ITEMS /\ exp = BTREE_FREELIST_SIZE_EXP

(* btree_free; site is the line of the call.  r = 0 or -1. *)
BtreeFree(m, ptr, site) ==
    LET m0 == [m EXCEPT !.log = Append(@, Ev("free", site, ptr, "", 0, 0, NoImage))]
        rd == Call("BtreePreadU64", <<m0, ptr - 8>>)
        realsize == BtreeAllocRealsize(rd.val)
        exp == BtreeLogTwo(realsize)
        fli == BtreeFreelistIndexByExp(exp)
        fl == rd.m.freelist[fli]
    IN
    IF rd.r = -1 THEN [m |-> rd.m, r |-> -1]
    ELSE IF realsize = Spins THEN [m |-> [rd.m EXCEPT !.hang = TRUE], r |-> -1]
    ELSE IF FreedBecomesBlock(fl.last_items, exp)
    THEN [m |-> Call("FreelistLinkBlock", <<rd.m, fli, ptr, 659, 665>>), r |-> 0]
    ELSE
    LET full == fl.last_items = BTREE_FREELIST_BLOCK_ITEMS
        al == Call("BtreeAlloc", <<rd.m, BTREE_FREELIST_BLOCK_SIZE>>)
        mA == IF full THEN Call("FreelistLinkBlock", <<al.m, fli, al.r, 681, 687>>) ELSE rd.m
        flA == mA.freelist[fli]
        newcount == FreelistCountAfterPush(flA.last_items)
        mB == [mA EXCEPT !.freelist[fli].last_items = newcount]
        block == flA.blocks[Len(flA.blocks)]
        w1 == Call("BtreePwriteU64", <<mB, 697, FreelistItemOf(ptr),
                             FreelistItemPos(block, newcount - 1)>>)
        w2 == Call("BtreePwriteU64", <<Call("BtreeSync", <<w1.m, 698>>), 704, newcount, block + 8*2>>)
    IN
    IF full /\ al.r = 0 THEN [m |-> al.m, r |-> -1]
    ELSE [m |-> Call("BtreeSync", <<w2.m, 705>>), r |-> 0]

(* btree_alloc_size: the user size kept in the 8 bytes before ptr. *)
BtreeAllocSize(m, ptr) ==
    LET rd == Call("BtreePreadU64", <<m, ptr - 8>>)
    IN  IF rd.r = -1 THEN [m |-> rd.m, r |-> -1, size |-> 0]
        ELSE [m |-> rd.m, r |-> 0, size |-> rd.val]

(* --------------------------- btree operations -------------------------- *)

(* A third of the keys around the median. *)
Thirdlen == (BTREE_MAX_KEYS - 1) \div 3

(* halflen of btree_split_child: the keys on each side of the median. *)
Halflen == (BTREE_MAX_KEYS - 1) \div 2

(* memcmp of two keys: negative, zero or positive. *)
Memcmp(a, b) == IF a < b THEN -1 ELSE IF a > b THEN 1 ELSE 0

(* A node counts as full one key early. *)
IsFullOneShort(n) == n.numkeys >= BTREE_MAX_KEYS - 1

(* btree_node_is_full *)
BtreeNodeIsFull(n) == n.numkeys = BTREE_MAX_KEYS

(* memmove of cnt entries of array arr from index src to index dst. *)
Memmove(arr, dst, src, cnt) ==
    Array([j \in DOMAIN arr |->
              IF j >= dst /\ j < dst + cnt THEN arr[j - dst + src] ELSE arr[j]])

(* btree_node_insert_key_at *)
BtreeNodeInsertKeyAt(n, i, key, valoff) ==
    [n EXCEPT !.keys = [Memmove(n.keys, i + 1, i, n.numkeys - i) EXCEPT ![i] = key],
              !.values = [Memmove(n.values, i + 1, i, n.numkeys - i) EXCEPT ![i] = valoff],
              !.numkeys = @ + 1]

(* The seek loop left out: the key goes after the last key of the node. *)
SeekEnd(n, key, i) == [i |-> i, found |-> FALSE]

(* The seek loop of btree_add_nonfull, from index i down: the index where  *)
(* it stops (-1 when the key is smaller than every key) and whether the    *)
(* key was found there.                                                    *)
RECURSIVE SeekPos(_, _, _)
SeekPos(n, key, i) ==
    IF i < 0 THEN [i |-> i, found |-> FALSE]
    ELSE LET cmp == Memcmp(key, n.keys[i])
         IN  IF cmp = 0 THEN [i |-> i, found |-> TRUE]
             ELSE IF cmp >= 0 THEN [i |-> i, found |-> FALSE]
             ELSE SeekPos(n, key, i - 1)

(* Offset of the values[i] slot of the node image at nodeptr. *)
ValueSlotPos(nodeptr, i) ==
    nodeptr + 16 + (BTREE_HASHED_KEY_LEN*BTREE_MAX_KEYS) + (8*i)

(* The values[i] slot taken for the children[i] slot. *)
SlotBesideChild(nodeptr, i) ==
    nodeptr + 16 + BTREE_HASHED_KEY_LEN*BTREE_MAX_KEYS + 8*i

(* Offset of the children[i] slot of the node image at nodeptr. *)
ChildSlotPos(nodeptr, i) ==
    nodeptr + 16 + BTREE_HASHED_KEY_LEN*BTREE_MAX_KEYS + 8*BTREE_MAX_KEYS + 8*i

(* An add of a key that is present is refused unless replace is set. *)
RefuseReplace(replace) == replace = 1

RefuseDuplicate(replace) == replace = 0

(* The right half without its last key. *)
SplitRightShort(child) ==
    [numkeys |-> Halflen - 1, isleaf |-> child.isleaf,
     keys |-> Array([j \in KeyIdx |-> IF j < Halflen - 1 THEN child.keys[j + Halflen + 1] ELSE 0]),
     values |-> Array([j \in KeyIdx |-> IF j < Halflen - 1 THEN child.values[j + Halflen + 1] ELSE 0]),
     children |-> Array([j \in ChildIdx |->
                     IF j < Halflen THEN child.children[j + Halflen + 1] ELSE 0])]

(* The right half, marked as a leaf whatever the child is. *)
SplitRightAsLeaf(child) ==
    [numkeys |-> Halflen, isleaf |-> 1,
     keys |-> Array([j \in KeyIdx |-> IF j < Halflen THEN child.keys[j + Halflen + 1] ELSE 0]),
     values |-> Array([j \in KeyIdx |-> IF j < Halflen THEN child.values[j + Halflen + 1] ELSE 0]),
     children |-> Array([j \in ChildIdx |->
                     IF j < Halflen + 1 THEN child.children[j + Halflen + 1] ELSE 0])]

(* The left half without its last key. *)
SplitLeftShort(child) ==
    [numkeys |-> Halflen - 1, isleaf |-> child.isleaf,
     keys |-> Array([j \in KeyIdx |-> IF j < Halflen - 1 THEN child.keys[j] ELSE 0]),
     values |-> Array([j \in KeyIdx |-> IF j < Halflen - 1 THEN child.values[j] ELSE 0]),
     children |-> Array([j \in ChildIdx |-> IF j < Halflen THEN child.children[j] ELSE 0])]

(* The left and the right half of the child that btree_split_child splits. *)
SplitLeft(child) ==
    [numkeys |-> Halflen, isleaf |-> child.isleaf,
     keys |-> Array([j \in KeyIdx |-> IF j < Halflen THEN child.keys[j] ELSE 0]),
     values |-> Array([j \in KeyIdx |-> IF j < Halflen THEN child.values[j] ELSE 0]),
     children |-> Array([j \in ChildIdx |-> IF j < Halflen + 1 THEN child.children[j] ELSE 0])]

SplitRight(child) ==
    [numkeys |-> Halflen, isleaf |-> child.isleaf,
     keys |-> Array([j \in KeyIdx |-> IF j < Halflen THEN child.keys[j + Halflen + 1] ELSE 0]),
     values |-> Array([j \in KeyIdx |-> IF j < Halflen THEN child.values[j + Halflen + 1] ELSE 0]),
     children |-> Array([j \in ChildIdx |->
                     IF j < Halflen + 1 THEN child.children[j + Halflen + 1] ELSE 0])]

(* The parent with the key before the median in slot i. *)
SplitParentKeyBefore(parent, child, i, loff, roff) ==
    LET cnt == parent.numkeys - i
    IN  [parent EXCEPT
            !.keys = [Memmove(parent.keys, i + 1, i, cnt) EXCEPT ![i] = child.keys[Halflen - 1]],
            !.values = [Memmove(parent.values, i + 1, i, cnt)
                            EXCEPT ![i] = child.values[Halflen]],
            !.children = [Memmove(parent.children, i + 2, i + 1, cnt)
                            EXCEPT ![i] = loff, ![i + 1] = roff],
            !.numkeys = @ + 1]

(* The parent with the median key in slot i and the left child only. *)
SplitParentLeftOnly(parent, child, i, loff, roff) ==
    LET cnt == parent.numkeys - i
    IN  [parent EXCEPT
            !.keys = [Memmove(parent.keys, i + 1, i, cnt) EXCEPT ![i] = child.keys[Halflen]],
            !.values = [Memmove(parent.values, i + 1, i, cnt)
                            EXCEPT ![i] = child.values[Halflen]],
            !.children = [Memmove(parent.children, i + 2, i + 1, cnt) EXCEPT ![i] = loff],
            !.numkeys = @ + 1]

(* The parent after btree_split_child moved the child's median key into    *)
(* slot i and set the two children around it.                              *)
SplitParent(parent, child, i, loff, roff) ==
    LET cnt == parent.numkeys - i
    IN  [parent EXCEPT
            !.keys = [Memmove(parent.keys, i + 1, i, cnt) EXCEPT ![i] = child.keys[Halflen]],
            !.values = [Memmove(parent.values, i + 1, i, cnt)
                            EXCEPT ![i] = child.values[Halflen]],
            !.children = [Memmove(parent.children, i + 2, i + 1, cnt)
                            EXCEPT ![i] = loff, ![i + 1] = roff],
            !.numkeys = @ + 1]

(* The in-memory root pointer follows a write of the header's root slot. *)
SetRootIf(m, pointedby, off) ==
    IF pointedby = BTREE_HDR_ROOTPTR_POS THEN [m EXCEPT !.rootptr = off] ELSE m

(* btree_split_child: r = 0 or -1, newparent the offset of the rewritten   *)
(* parent.  A failed assert aborts the process (abort = TRUE).             *)
BtreeSplitChild(m, pointedby, parentoff, i, childoff) ==
    LET rp == Call("BtreeReadNode", <<m, parentoff>>)
        rc == Call("BtreeReadNode", <<rp.m, childoff>>)
        parent == rp.n
        child == rc.n
        al == Call("BtreeAlloc", <<rc.m, BTREE_NODE_SIZE>>)
        ar == Call("BtreeAlloc", <<al.m, BTREE_NODE_SIZE>>)
        wl == Call("BtreeWriteNode", <<ar.m, 882, SplitLeft(child), al.r>>)
        wr == Call("BtreeWriteNode", <<wl.m, 883, SplitRight(child), ar.r>>)
        ap == Call("BtreeAlloc", <<wr.m, BTREE_NODE_SIZE>>)
        wp == Call("BtreeWriteNode", <<ap.m, 902, SplitParent(parent, child, i, al.r, ar.r), ap.r>>)
        wl2 == Call("BtreePwriteU64", <<Call("BtreeSync", <<wp.m, 905>>), 906, ap.r, pointedby>>)
        m1 == Call("SetRootIf", <<wl2.m, pointedby, ap.r>>)
        m2 == Call("BtreeFree", <<m1, parentoff, 909>>).m
        m3 == Call("BtreeFree", <<m2, childoff, 910>>).m
        fail(mm) == [m |-> mm, r |-> -1, newparent |-> 0]
    IN
    IF ~rp.ok THEN fail(rp.m)
    ELSE IF ~rc.ok THEN fail(rc.m)
    ELSE IF child.numkeys # BTREE_MAX_KEYS \/ parent.numkeys = BTREE_MAX_KEYS
    THEN fail([rc.m EXCEPT !.abort = TRUE])
    ELSE IF al.r = 0 THEN fail(al.m)
    ELSE IF ar.r = 0 THEN fail(ar.m)
    ELSE IF wl.r = -1 THEN fail(wl.m)
    ELSE IF wr.r = -1 THEN fail(wr.m)
    ELSE IF ap.r = 0 THEN fail(ap.m)
    ELSE IF wp.r = -1 THEN fail(wp.m)
    ELSE IF wl2.r = -1 THEN fail(wl2.m)
    ELSE [m |-> m3, r |-> 0, newparent |-> ap.r]

(* btree_add_nonfull: r = 0 or -1; dup is the EBUSY return for a key that  *)
(* is present and may not be replaced.                                     *)
BtreeAddNonfull(m, nodeptr, pointedby, key, val, vlen, replace) ==
    LET rn == Call("BtreeReadNode", <<m, nodeptr>>)
        n == rn.n
        sk == SeekPos(n, key, n.numkeys - 1)
        i == sk.i
        fail(mm) == [m |-> mm, r |-> -1, dup |-> FALSE]
    IN
    IF ~rn.ok THEN fail(rn.m)
    ELSE IF sk.found THEN
        IF RefuseDuplicate(replace) THEN [m |-> rn.m, r |-> -1, dup |-> TRUE]
        ELSE
        LET oldvaloff == n.values[i]
            a == Call("BtreeAlloc", <<rn.m, vlen>>)
            w == Call("Pwrite", <<a.m, 782, "val", a.r, val, vlen, NoImage>>)
            w2 == Call("BtreePwriteU64", <<Call("BtreeSync", <<w.m, 783>>), 785, a.r, ValueSlotPos(nodeptr, i)>>)
        IN  IF a.r = 0 THEN fail(a.m)
            ELSE IF w.r = -1 THEN fail(w.m)
            ELSE IF w2.r = -1 THEN fail(w2.m)
            ELSE [m |-> Call("BtreeFree", <<w2.m, oldvaloff, 787>>).m, r |-> 0, dup |-> FALSE]
    ELSE IF n.isleaf # 0 THEN
        LET a == Call("BtreeAlloc", <<rn.m, vlen>>)
            w == Call("Pwrite", <<a.m, 799, "val", a.r, val, vlen, NoImage>>)
            n2 == BtreeNodeInsertKeyAt(n, i + 1, key, a.r)
            a2 == Call("BtreeAlloc", <<w.m, BTREE_NODE_SIZE>>)
            wn == Call("BtreeWriteNode", <<a2.m, 804, n2, a2.r>>)
            wp == Call("BtreePwriteU64", <<wn.m, 806, a2.r, pointedby>>)
            fr == Call("BtreeFree", <<Call("SetRootIf", <<wp.m, pointedby, a2.r>>), nodeptr, 809>>)
        IN  IF a.r = 0 THEN fail(a.m)
            ELSE IF w.r = -1 THEN fail(w.m)
            ELSE IF a2.r = 0 THEN fail(a2.m)
            ELSE IF wn.r = -1 THEN fail(wn.m)
            ELSE IF wp.r = -1 THEN fail(wp.m)
            ELSE IF fr.r = -1 THEN fail(fr.m)
            ELSE [m |-> fr.m, r |-> 0, dup |-> FALSE]
    ELSE
        LET ci == i + 1
            rc == Call("BtreeReadNode", <<rn.m, n.children[ci]>>)
            sp == Call("BtreeSplitChild", <<rc.m, pointedby, nodeptr, ci, n.children[ci]>>)
        IN  IF ~rc.ok THEN fail(rc.m)
            ELSE IF BtreeNodeIsFull(rc.n) THEN
                IF sp.r = -1 THEN fail(sp.m)
                ELSE Call("BtreeAddNonfull", <<sp.m, sp.newparent, pointedby, key, val, vlen, replace>>)
            ELSE Call("BtreeAddNonfull", <<rc.m, n.children[ci], ChildSlotPos(nodeptr, ci),
                                 key, val, vlen, replace>>)

(* btree_add *)
BtreeAdd(m, key, val, vlen, replace) ==
    LET rr == Call("BtreeReadNode", <<m, m.rootptr>>)
        a == Call("BtreeAlloc", <<rr.m, BTREE_NODE_SIZE>>)
        w == Call("BtreeWriteNode", <<a.m, 940, BtreeCreateNode, a.r>>)
        sp == Call("BtreeSplitChild", <<w.m, BTREE_HDR_ROOTPTR_POS, a.r, 0, w.m.rootptr>>)
        fail(mm) == [m |-> mm, r |-> -1, dup |-> FALSE]
    IN
    IF ~rr.ok THEN fail(rr.m)
    ELSE IF BtreeNodeIsFull(rr.n) THEN
        IF a.r = 0 THEN fail(a.m)
        ELSE IF w.r = -1 THEN fail(w.m)
        ELSE IF sp.r = -1 THEN fail(sp.m)
        ELSE Call("BtreeAddNonfull", <<sp.m, sp.m.rootptr, BTREE_HDR_ROOTPTR_POS,
                             key, val, vlen, replace>>)
    ELSE Call("BtreeAddNonfull", <<rr.m, rr.m.rootptr, BTREE_HDR_ROOTPTR_POS,
                         key, val, vlen, replace>>)

(* btree_find from node nptr down: r = 0 and voff on success, r = -1 with  *)
(* notfound (ENOENT) or a read error otherwise.                            *)
RECURSIVE FindScanGe(_, _, _)
FindScanGe(n, key, j) ==
    IF j < n.numkeys /\ Memcmp(key, n.keys[j]) >= 0 THEN FindScanGe(n, key, j + 1) ELSE j

RECURSIVE FindScan(_, _, _)
FindScan(n, key, j) ==
    IF j < n.numkeys /\ Memcmp(key, n.keys[j]) > 0 THEN FindScan(n, key, j + 1) ELSE j

BtreeFindFrom(m, nptr, key) ==
    LET rn == Call("BtreeReadNode", <<m, nptr>>)
        n == rn.n
        j == FindScan(n, key, 0)
    IN
    IF ~rn.ok THEN [m |-> rn.m, r |-> -1, notfound |-> FALSE, corrupt |-> rn.corrupt, voff |-> 0]
    ELSE IF j < n.numkeys /\ Memcmp(key, n.keys[j]) = 0
    THEN [m |-> rn.m, r |-> 0, notfound |-> FALSE, corrupt |-> FALSE, voff |-> n.values[j]]
    ELSE IF n.isleaf # 0 \/ n.children[j] = 0
    THEN [m |-> rn.m, r |-> -1, notfound |-> TRUE, corrupt |-> FALSE, voff |-> 0]
    ELSE Call("BtreeFindFrom", <<rn.m, n.children[j], key>>)

(* btree_find *)
BtreeFind(m, key) == Call("BtreeFindFrom", <<m, m.rootptr, key>>)

(* ------------------------------ open / create -------------------------- *)

(* Offset of the header-resident free list block of size class j. *)
FreelistHeadPos(j) == 32 + BTREE_FREELIST_BLOCK_SIZE * j

(* The size btree_create gives the new file; also the first freeoff. *)
CreateSize ==
    8*4 + BTREE_FREELIST_COUNT * BTREE_FREELIST_BLOCK_SIZE + 8 + BTREE_NODE_SIZE

(* The loop of btree_create over the free lists, from class j on. *)
CreateFreelists(m, j) ==
    IF j >= BTREE_FREELIST_COUNT THEN [m |-> m, r |-> 0]
    ELSE
    LET off == FreelistHeadPos(j)
        w1 == Call("BtreePwriteU64", <<m, 345, 0, off>>)
        w2 == Call("BtreePwriteU64", <<w1.m, 346, 0, off + 8>>)
        w3 == Call("BtreePwriteU32", <<w2.m, 348, 0, off + 16>>)
    IN  IF w1.r = -1 THEN [m |-> w1.m, r |-> -1]
        ELSE IF w2.r = -1 THEN [m |-> w2.m, r |-> -1]
        ELSE IF w3.r = -1 THEN [m |-> w3.m, r |-> -1]
        ELSE Call("CreateFreelists", <<w3.m, j + 1>>)

(* btree_create, on an empty file.  The 16 magic bytes are a value cell. *)
BtreeCreate(m) ==
    LET rs == Call("VfsResize", <<m, 326, CreateSize>>)
        w0 == Call("Pwrite", <<rs.m, 332, "val", 0, 0, 16, NoImage>>)
        w1 == Call("BtreePwriteU64", <<w0.m, 335, 0, BTREE_HDR_FREE_POS>>)
        w2 == Call("BtreePwriteU64", <<w1.m, 337, CreateSize, BTREE_HDR_FREEOFF_POS>>)
    IN  IF rs.r = -1 THEN [m |-> rs.m, r |-> -1]
        ELSE IF w0.r = -1 THEN [m |-> w0.m, r |-> -1]
        ELSE IF w1.r = -1 THEN [m |-> w1.m, r |-> -1]
        ELSE IF w2.r = -1 THEN [m |-> w2.m, r |-> -1]
        ELSE Call("CreateFreelists", <<w2.m, 0>>)

(* The next field of the free list block at ptr. *)
MetaNextPos(ptr) == ptr + 8

(* The count field of the free list block at ptr, as btree_read_metadata   *)
(* reads it.                                                               *)
MetaCountPos(ptr) == ptr + 8*2

(* The do-while of btree_read_metadata over the blocks of class j. *)
MetaWalk(m, j, ptr) ==
    LET r1 == Call("BtreePreadU64", <<m, ptr + 8>>)
        r2 == Call("BtreePreadU64", <<r1.m, MetaCountPos(ptr)>>)
        m2 == [r2.m EXCEPT !.freelist[j] =
                              [blocks |-> Append(@.blocks, ptr), last_items |-> r2.val]]
    IN  IF r1.r = -1 THEN [m |-> r1.m, r |-> -1]
        ELSE IF r2.r = -1 THEN [m |-> r2.m, r |-> -1]
        ELSE IF r1.val # 0 THEN Call("MetaWalk", <<m2, j, r1.val>>)
        ELSE [m |-> m2, r |-> 0]

MetaFreelists(m, j) ==
    IF j >= BTREE_FREELIST_COUNT THEN [m |-> m, r |-> 0]
    ELSE LET w == Call("MetaWalk", <<m, j, FreelistHeadPos(j)>>)
         IN  IF w.r = -1 THEN w ELSE Call("MetaFreelists", <<w.m, j + 1>>)

(* btree_read_metadata *)
BtreeReadMetadata(m) ==
    LET r1 == Call("BtreePreadU64", <<m, BTREE_HDR_FREE_POS>>)
        r2 == Call("BtreePreadU64", <<r1.m, BTREE_HDR_FREEOFF_POS>>)
        r3 == Call("BtreePreadU64", <<r2.m, BTREE_HDR_ROOTPTR_POS>>)
        m3 == [r3.m EXCEPT !.free = r1.val, !.freeoff = r2.val, !.rootptr = r3.val]
    IN  IF r1.r = -1 THEN [m |-> r1.m, r |-> -1]
        ELSE IF r2.r = -1 THEN [m |-> r2.m, r |-> -1]
        ELSE IF r3.r = -1 THEN [m |-> r3.m, r |-> -1]
        ELSE Call("MetaFreelists", <<m3, 0>>)

(* The struct btree that btree_open allocates, over the given file. *)
NewBtree(disk, fsize, failAt) ==
    [disk |-> disk, fsize |-> fsize,
     free |-> 0, freeoff |-> 0, rootptr |-> 0, mark |-> 0,
     flags |-> BTREE_FLAG_USE_WRITE_BARRIER,
     freelist |-> Array([j \in 0..(BTREE_FREELIST_COUNT-1) |->
                             [blocks |-> <<>>, last_items |-> 0]]),
     log |-> <<>>, ncall |-> 0, failAt |-> failAt, abort |-> FALSE,
     hang |-> FALSE, short |-> FALSE, junk |-> 0]

(* A first root without the leaf flag. *)
FirstRootNotLeaf == BtreeCreateNode

(* The empty leaf that btree_open writes as the first root. *)
FirstRoot == [BtreeCreateNode EXCEPT !.isleaf = 1]

(* btree_open: exists tells whether the first vfs open found the file;     *)
(* seed is what random() and gettimeofday() give for the mark.             *)
BtreeOpen(disk, fsize, exists, seed, failAt) ==
    LET bt0 == NewBtree(disk, fsize, failAt)
        cr == Call("BtreeCreate", <<bt0>>)
        rm == Call("BtreeReadMetadata", <<IF exists THEN bt0 ELSE cr.m>>)
        m1 == [rm.m EXCEPT !.mark = seed]
        a == Call("BtreeAlloc", <<m1, BTREE_NODE_SIZE>>)
        w == Call("BtreeWriteNode", <<a.m, 275, FirstRoot, a.r>>)
        wp == Call("BtreePwriteU64", <<Call("BtreeSync", <<w.m, 280>>), 283, a.r, BTREE_HDR_ROOTPTR_POS>>)
    IN  IF ~exists /\ cr.r = -1 THEN [m |-> cr.m, ok |-> FALSE]
        ELSE IF rm.r = -1 THEN [m |-> rm.m, ok |-> FALSE]
        ELSE IF exists THEN [m |-> m1, ok |-> TRUE]
        ELSE IF a.r = 0 THEN [m |-> a.m, ok |-> FALSE]
        ELSE IF w.r = -1 THEN [m |-> w.m, ok |-> FALSE]
        ELSE IF wp.r = -1 THEN [m |-> wp.m, ok |-> FALSE]
        ELSE [m |-> Call("BtreeSync", <<[wp.m EXCEPT !.rootptr = a.r], 285>>), ok |-> TRUE]

(* The functions of src/btree.c that Call reaches. *)
Call(f, a) ==
    CASE f = "Pwrite" -> Pwrite(a[1], a[2], a[3], a[4], a[5], a[6], a[7])
      [] f = "BtreePwriteU64" -> BtreePwriteU64(a[1], a[2], a[3], a[4])
      [] f = "BtreePwriteU32" -> BtreePwriteU32(a[1], a[2], a[3], a[4])
      [] f = "BtreePreadU64" -> BtreePreadU64(a[1], a[2])
      [] f = "VfsResize" -> VfsResize(a[1], a[2], a[3])
      [] f = "BtreeSync" -> BtreeSync(a[1], a[2])
      [] f = "BtreeWriteNode" -> BtreeWriteNode(a[1], a[2], a[3], a[4])
      [] f = "BtreeReadNode" -> BtreeReadNode(a[1], a[2])
      [] f = "BtreeAllocFreelist" -> BtreeAllocFreelist(a[1], a[2])
      [] f = "BtreeAlloc" -> BtreeAlloc(a[1], a[2])
      [] f = "BtreeFree" -> BtreeFree(a[1], a[2], a[3])
      [] f = "FreelistLinkBlock" -> FreelistLinkBlock(a[1], a[2], a[3], a[4], a[5])
      [] f = "BtreeAllocSize" -> BtreeAllocSize(a[1], a[2])
      [] f = "SetRootIf" -> SetRootIf(a[1], a[2], a[3])
      [] f = "BtreeSplitChild" -> BtreeSplitChild(a[1], a[2], a[3], a[4], a[5])
      [] f = "BtreeAddNonfull" -> BtreeAddNonfull(a[1], a[2], a[3], a[4], a[5], a[6], a[7])
      [] f = "BtreeAdd" -> BtreeAdd(a[1], a[2], a[3], a[4], a[5])
      [] f = "BtreeFindFrom" -> BtreeFindFrom(a[1], a[2], a[3])
      [] f = "BtreeFind" -> BtreeFind(a[1], a[2])
      [] f = "CreateFreelists" -> CreateFreelists(a[1], a[2])
      [] f = "BtreeCreate" -> BtreeCreate(a[1])
      [] f = "MetaWalk" -> MetaWalk(a[1], a[2], a[3])
      [] f = "MetaFreelists" -> MetaFreelists(a[1], a[2])
      [] f = "BtreeReadMetadata" -> BtreeReadMetadata(a[1])
      [] f = "BtreeOpen" -> BtreeOpen(a[1], a[2], a[3], a[4], a[5])

(* ------------------------------ the system ----------------------------- *)

VARIABLES
    disk,      \* the file contents
    fsize,     \* the file size
    bt,        \* struct btree: free, freeoff, rootptr, mark, flags, freelist
    log,       \* the VFS calls issued by the last operation, in order
    disk0,     \* the file contents when the last operation began
    bt0,       \* struct btree when the last operation began
    amap,      \* history: key -> value of its most recent successful add
    prefixes,  \* history: amap after each successful add so far
    last,      \* the last add: its arguments and its results
    found,     \* the last find: its key and its results
    nops,      \* number of adds so far
    nre,       \* number of re-adds that closed a strided fill so far
    stride,    \* the workload: 0 is the free mix, s > 0 the fill of stride s,
               \* -1 and -2 the allocator bursts, -3 and -4 the long fills
    held,      \* the offsets btree_alloc gave the caller, not yet freed
    nopen      \* number of times the file was closed and opened again

vars == <<disk, fsize, bt, log, disk0, bt0, amap, prefixes, last, found, nops, nre, stride, held, nopen>>

(* Bounds of the workloads. *)
NKeys == 13        \* a strided fill adds the keys 1..NKeys, each once
NStrides == 5      \* strides 1..NStrides
NLong == 60        \* a long fill adds the keys 1..NLong, up or down
MaxReadd == 2      \* re-adds of present keys after a strided fill
MaxReaddKey == 3   \* ... of the keys 1..MaxReaddKey
MixKeys == 3       \* the free mix adds keys 1..MixKeys in any order
MixOps == 4        \* ... at most MixOps times
NVLens == 2        \* number of distinct value lengths
MarkSeed == 100    \* what random() and the clock give btree_open
SmallAlloc == 8    \* the size of the allocations a caller makes in the mix
BurstExtra == 2    \* a burst frees BurstExtra allocations more than a block holds
BurstTail == 3     \* ... and ends with BurstTail allocations or adds
MaxReopen == 1     \* times a run closes and reopens the file
Junk == {0, 24}    \* what a buffer that no pread filled may hold
MaxFailAt == 18    \* an injected error hits one of the first MaxFailAt calls
NOrder == 8        \* the orders add the keys 1..NOrder, each once
NEnds == 2         \* ... each time one of the NEnds least or greatest keys left

(* The i-th key (from 0) of the strided fill: a permutation of 1..NKeys    *)
(* when the stride and NKeys are coprime.                                  *)
KeyAt(s, i) == 1 + ((i * s) % NKeys)

(* The length of the value that add number n stores. *)
VLen(n) == 1 + 4 * (n % NVLens)

(* The machine an operation starts from: the file and struct btree b. *)
MachineOf(d, fs, b, failAt) ==
    [disk |-> d, fsize |-> fs,
     free |-> b.free, freeoff |-> b.freeoff, rootptr |-> b.rootptr,
     mark |-> b.mark, flags |-> b.flags, freelist |-> b.freelist,
     log |-> <<>>, ncall |-> 0, failAt |-> failAt, abort |-> FALSE,
     hang |-> FALSE, short |-> FALSE, junk |-> 0]

Machine(failAt) == MachineOf(disk, fsize, bt, failAt)

BtOf(m) ==
    [free |-> m.free, freeoff |-> m.freeoff, rootptr |-> m.rootptr,
     mark |-> m.mark, flags |-> m.flags, freelist |-> m.freelist]

Opened == Call("BtreeOpen", <<<<>>, 0, FALSE, MarkSeed, 0>>)

NoAdd ==
    [op |-> "open", key |-> 0, val |-> 0, vlen |-> 0, replace |-> 0,
     r |-> 0, dup |-> FALSE, failAt |-> 0, ncall |-> 0, present |-> FALSE,
     ptr |-> 0, hung |-> FALSE, short |-> FALSE, aborted |-> FALSE]

NoFind == [key |-> 0, r |-> 0, notfound |-> FALSE, voff |-> 0, bytes |-> [len |-> 0, v |-> 0]]

(* The state after btree_open created the file. *)
Start ==
    /\ disk = Opened.m.disk
    /\ fsize = Opened.m.fsize
    /\ bt = BtOf(Opened.m)
    /\ log = Opened.m.log
    /\ disk0 = <<>>
    /\ bt0 = BtOf(NewBtree(<<>>, 0, 0))
    /\ amap = <<>>
    /\ prefixes = {<<>>}
    /\ last = NoAdd
    /\ found = NoFind
    /\ nops = 0
    /\ nre = 0
    /\ held = {}
    /\ nopen = 0

Init == stride \in -4..NStrides /\ Start

(* The workload of the orders: stride -5. *)
InitOrder == stride = -5 /\ Start

(* amap with key k bound to value x. *)
Bind(f, k, x) == Array([q \in DOMAIN f \cup {k} |-> IF q = k THEN x ELSE f[q]])

(* The successor state of one call of btree_add whose result is res. *)
AddResult(key, val, vlen, replace, failAt, res, newmap) ==
    /\ disk' = res.m.disk
    /\ fsize' = res.m.fsize
    /\ bt' = BtOf(res.m)
    /\ log' = res.m.log
    /\ disk0' = disk
    /\ bt0' = bt
    /\ amap' = newmap
    /\ prefixes' = prefixes \cup {newmap}
    /\ last' = [op |-> "add", key |-> key, val |-> val, vlen |-> vlen,
                replace |-> replace, r |-> res.r, dup |-> res.dup,
                failAt |-> failAt, ncall |-> res.m.ncall,
                present |-> key \in DOMAIN amap, ptr |-> 0, hung |-> res.m.hang,
                short |-> res.m.short, aborted |-> res.m.abort]
    /\ nops' = nops + 1
    /\ UNCHANGED <<found, held, nopen>>

(* The last call returned, and without an I/O error. *)
Returned == last.failAt = 0 /\ ~last.hung

(* One call of btree_add on the machine m0, whose VFS call number failAt   *)
(* fails (0: none; the add must get as far as that call).  The value is    *)
(* stamped with the number of the add.  A run is a sequence of adds and    *)
(* then a find, and it makes no further add after one that met a failure.  *)
DoAddSized(m0, key, vlen, replace, failAt) ==
    LET val == nops + 1
    IN  /\ found = NoFind /\ Returned
        /\ \E res \in {Call("BtreeAdd", <<m0, key, val, vlen, replace>>)} :
           \E newmap \in {IF res.r = 0 THEN Bind(amap, key, [len |-> vlen, v |-> val])
                                      ELSE amap} :
               /\ failAt > 0 => res.m.ncall >= failAt
               /\ AddResult(key, val, vlen, replace, failAt, res, newmap)

(* The add number n stores a value of VLen(n) bytes. *)
DoAddOn(m0, key, replace, failAt) == DoAddSized(m0, key, VLen(nops), replace, failAt)

DoAdd(key, replace, failAt) == DoAddOn(Machine(failAt), key, replace, failAt)

(* The next key of a strided fill. *)
AddFresh ==
    /\ stride > 0 /\ nre = 0 /\ nops < NKeys
    /\ \E replace \in {0, 1} : DoAdd(KeyAt(stride, nops), replace, 0)
    /\ UNCHANGED <<nre, stride>>

(* A re-add of a present key, after a strided fill. *)
ReAdd ==
    /\ stride > 0 /\ nre < MaxReadd
    /\ \E key \in DOMAIN amap, replace \in {0, 1} :
          key <= MaxReaddKey /\ DoAdd(key, replace, 0)
    /\ nre' = nre + 1
    /\ UNCHANGED stride

(* A re-add of any key of the root when it has become full, which ends    *)
(* the strided fill.                                                       *)
ReAddFull ==
    /\ stride > 0 /\ nre = 0
    /\ BtreeNodeIsFull(ReadImage(disk, bt.rootptr).node)
    /\ \E key \in DOMAIN amap, replace \in {0, 1} : DoAdd(key, replace, 0)
    /\ nre' = MaxReadd
    /\ UNCHANGED stride

(* The workload is a long fill. *)
LongFill == stride \in {-3, -4}

(* The i-th key (from 0) of the long fill: upwards or downwards. *)
LongKey(i) == IF stride = -3 THEN i + 1 ELSE NLong - i

(* The next key of a long fill. *)
AddLong ==
    /\ LongFill /\ nops < NLong
    /\ DoAdd(LongKey(nops), 0, 0)
    /\ UNCHANGED <<nre, stride>>

(* The keys an order may add next: of the keys not added yet, the NEnds    *)
(* least and the NEnds greatest.                                           *)
OrderNext ==
    LET left == (1..NOrder) \ DOMAIN amap
    IN  {k \in left : \/ Cardinality({q \in left : q < k}) < NEnds
                      \/ Cardinality({q \in left : q > k}) < NEnds}

(* The next key of an order. *)
AddOrder ==
    /\ stride = -5
    /\ \E key \in OrderNext : DoAdd(key, 0, 0)
    /\ UNCHANGED <<nre, stride>>

(* Any add of the free mix. *)
AddMix ==
    /\ stride = 0 /\ nops < MixOps
    /\ \E key \in 1..MixKeys, replace \in {0, 1} : DoAdd(key, replace, 0)
    /\ UNCHANGED <<nre, stride>>

(* An add of the free mix during which one VFS call fails. *)
AddFailing ==
    /\ stride = 0 /\ nops < MixOps
    /\ \E key \in 1..MixKeys, replace \in {0, 1}, failAt \in 1..MaxFailAt :
          DoAdd(key, replace, failAt)
    /\ UNCHANGED <<nre, stride>>

(* An add of the free mix during which one VFS call transfers no byte. *)
AddShort ==
    /\ stride = 0 /\ nops < MixOps
    /\ \E key \in 1..MixKeys, replace \in {0, 1}, failAt \in 1..MaxFailAt, junk \in Junk :
          DoAddOn([Machine(failAt) EXCEPT !.short = TRUE, !.junk = junk],
                  key, replace, failAt)
    /\ UNCHANGED <<nre, stride>>

(* The successor state of a call by the user of btree_alloc, btree_free or *)
(* btree_open that leaves the machine m.                                   *)
CallResult(m, lst, newheld) ==
    /\ disk' = m.disk
    /\ fsize' = m.fsize
    /\ bt' = BtOf(m)
    /\ log' = m.log
    /\ disk0' = disk
    /\ bt0' = bt
    /\ last' = [lst EXCEPT !.ncall = m.ncall, !.hung = m.hang, !.aborted = m.abort]
    /\ held' = newheld
    /\ UNCHANGED <<amap, prefixes, found, nre, stride>>

(* One call of btree_alloc by the user. *)
DoAlloc(size) ==
    /\ found = NoFind /\ Returned
    /\ \E res \in {Call("BtreeAlloc", <<Machine(0), size>>)} :
          CallResult(res.m, [NoAdd EXCEPT !.op = "alloc", !.vlen = size, !.ptr = res.r],
                     IF res.r = 0 THEN held ELSE held \cup {res.r})
    /\ nops' = nops + 1
    /\ UNCHANGED nopen

(* One call of btree_free by the user, of an allocation it holds. *)
DoFree(ptr) ==
    /\ found = NoFind /\ Returned
    /\ \E res \in {Call("BtreeFree", <<Machine(0), ptr, 0>>)} :
          CallResult(res.m, [NoAdd EXCEPT !.op = "free", !.ptr = ptr, !.r = res.r],
                     held \ {ptr})
    /\ nops' = nops + 1
    /\ UNCHANGED nopen

(* The free mix: an allocation. *)
AllocMix == stride = 0 /\ nops < MixOps /\ DoAlloc(SmallAlloc)

(* The free mix: an allocation during which one VFS call fails; the caller *)
(* holds whatever is not 0.                                                *)
AllocFailing ==
    /\ stride = 0 /\ nops < MixOps
    /\ found = NoFind /\ Returned
    /\ \E failAt \in 1..MaxFailAt :
       \E res \in {Call("BtreeAlloc", <<Machine(failAt), SmallAlloc>>)} :
          /\ res.m.ncall >= failAt
          /\ CallResult(res.m, [NoAdd EXCEPT !.op = "alloc", !.vlen = SmallAlloc,
                                             !.ptr = res.r, !.failAt = failAt],
                        IF res.r = 0 THEN held ELSE held \cup {res.r})
    /\ nops' = nops + 1
    /\ UNCHANGED nopen

(* The free mix: the release of an allocation. *)
FreeMix == stride = 0 /\ nops < MixOps /\ \E ptr \in held : DoFree(ptr)

(* The sizes of the allocations a caller makes besides SmallAlloc: the     *)
(* next size, one of the next class, more than the file grows by at once,  *)
(* and those around the limit of btree_alloc.                              *)
NextAlloc == SmallAlloc + 1
ClassAlloc == 2 * SmallAlloc + 1
OverPrealloc == 2 * BTREE_PREALLOC_SIZE
MaxAlloc == 2147483647
AllocSizes ==
    {SmallAlloc, NextAlloc, ClassAlloc, OverPrealloc, MaxAlloc, TwoTo31, TwoTo31 + 1}

(* An add of the free mix whose value is of the size class of the least   *)
(* values or of the next one.                                              *)
AddSized ==
    /\ stride = 0 /\ nops < MixOps
    /\ \E key \in 1..MixKeys, replace \in {0, 1}, vlen \in {VLen(0), ClassAlloc} :
          DoAddSized(Machine(0), key, vlen, replace, 0)
    /\ UNCHANGED <<nre, stride>>

(* The free mix: an allocation of any of these sizes. *)
AllocSized == stride = 0 /\ nops < MixOps /\ \E size \in AllocSizes : DoAlloc(size)

(* The allocator bursts: NBurst allocations of one size, then their        *)
(* release in the order of allocation, which overflows the first block of  *)
(* the free list of their class, then BurstTail allocations or adds.       *)
NBurst == BTREE_FREELIST_BLOCK_ITEMS + BurstExtra

(* The workload is an allocator burst. *)
Bursting == stride \in {-1, -2}

(* The size of the allocations of a burst: in the class of the values, or  *)
(* in the class of the free list blocks.                                   *)
BurstSize == IF stride = -1 THEN SmallAlloc ELSE BTREE_FREELIST_BLOCK_SIZE

BurstAlloc ==
    /\ Bursting
    /\ nops < NBurst \/ (2 * NBurst <= nops /\ nops < 2 * NBurst + BurstTail)
    /\ DoAlloc(BurstSize)

BurstFree ==
    /\ Bursting /\ NBurst <= nops /\ nops < 2 * NBurst
    /\ DoFree(CHOOSE ptr \in held : \A q \in held : ptr <= q)

BurstAdd ==
    /\ Bursting /\ 2 * NBurst <= nops /\ nops < 2 * NBurst + BurstTail
    /\ \E key \in 1..MixKeys, replace \in {0, 1} : DoAdd(key, replace, 0)
    /\ UNCHANGED <<nre, stride>>

(* The file is closed and opened again: btree_close, then btree_open on    *)
(* the file, which exists.  A burst reopens the file in its tail only.     *)
Reopen ==
    /\ found = NoFind /\ Returned /\ nopen < MaxReopen /\ nops > 0
    /\ Bursting => nops >= 2 * NBurst
    /\ \E o \in {Call("BtreeOpen", <<disk, fsize, TRUE, MarkSeed + nops, 0>>)} :
          CallResult(o.m, [NoAdd EXCEPT !.op = "reopen", !.r = IF o.ok THEN 0 ELSE -1],
                     held)
    /\ nopen' = nopen + 1
    /\ UNCHANGED nops

(* flags | BTREE_FLAG_USE_WRITE_BARRIER and flags & ~BTREE_FLAG_USE_WRITE_BARRIER *)
WithBarrier(flags) ==
    IF UseWriteBarrier(flags) THEN flags ELSE flags + BTREE_FLAG_USE_WRITE_BARRIER

WithoutBarrier(flags) ==
    IF UseWriteBarrier(flags) THEN flags - BTREE_FLAG_USE_WRITE_BARRIER ELSE flags

(* The successor state of a call that sets bt->flags to flags. *)
FlagsResult(flags) ==
    /\ bt' = [bt EXCEPT !.flags = flags]
    /\ bt0' = bt
    /\ disk0' = disk
    /\ log' = <<>>
    /\ last' = [NoAdd EXCEPT !.op = "flags"]
    /\ UNCHANGED <<disk, fsize, amap, prefixes, found, nops, nre, stride, held, nopen>>

(* btree_set_flags(bt, BTREE_FLAG_USE_WRITE_BARRIER) *)
BtreeSetFlags ==
    /\ found = NoFind /\ Returned
    /\ Bursting => nops = 0
    /\ FlagsResult(WithBarrier(bt.flags))

(* btree_clear_flags(bt, BTREE_FLAG_USE_WRITE_BARRIER) *)
BtreeClearFlags ==
    /\ found = NoFind /\ Returned
    /\ Bursting => nops = 0
    /\ FlagsResult(WithoutBarrier(bt.flags))

(* The keys a run may look up: every key it may add and one it never adds. *)
Keys == IF LongFill THEN 1..(NLong + 1) ELSE 1..(NKeys + 1)

(* What btree_find and a read of the value it points to give for key k,    *)
(* on the file d under struct btree b.                                     *)
FindIn(d, b, k) ==
    LET f == Call("BtreeFind", <<MachineOf(d, fsize, b, 0), k>>)
    IN  [key |-> k, r |-> f.r, notfound |-> f.notfound, voff |-> f.voff,
         bytes |-> IF f.r = 0 THEN ReadVal(d, f.voff) ELSE [len |-> 0, v |-> 0]]

FindNow(k) == FindIn(disk, bt, k)

(* One call of btree_find, for a key added or not: the last call of a run. *)
Find ==
    /\ found = NoFind
    /\ \E k \in Keys : found' = FindNow(k)
    /\ UNCHANGED <<disk, fsize, bt, log, disk0, bt0, amap, prefixes, last, nops, nre, stride, held, nopen>>

Next == AddFresh \/ ReAdd \/ ReAddFull \/ AddMix \/ AddLong \/ Find

Spec == Init /\ [][Next]_vars

(* The adds, with I/O errors. *)
NextFail == AddFresh \/ ReAdd \/ AddMix \/ AddLong \/ AddFailing \/ AllocFailing

SpecFail == Init /\ [][NextFail]_vars

(* The adds of the free mix, with transfers of no byte. *)
InitMix == stride = 0 /\ Start

NextShort == AddMix \/ AddShort

SpecShort == InitMix /\ [][NextShort]_vars

(* The adds of the free mix, with values of two size classes. *)
NextSized == AddSized

SpecSized == InitMix /\ [][NextSized]_vars

(* The free mix and the bursts, with the barrier flag set and cleared. *)
InitFlags == stride \in {0, -1, -2} /\ Start

NextFlags ==
    \/ AddMix \/ AllocMix \/ FreeMix \/ BurstAlloc \/ BurstFree \/ BurstAdd
    \/ Reopen \/ BtreeSetFlags \/ BtreeClearFlags

SpecFlags == InitFlags /\ [][NextFlags]_vars

(* Adds, allocations and releases by the user, and reopening. *)
NextReopen ==
    \/ AddFresh \/ ReAdd \/ AddMix \/ AddLong \/ AllocMix \/ FreeMix
    \/ BurstAlloc \/ BurstFree \/ BurstAdd \/ Reopen

SpecReopen == Init /\ [][NextReopen]_vars

(* The adds of distinct keys in every order. *)
NextOrder == AddOrder

SpecOrder == InitOrder /\ [][NextOrder]_vars

(* Allocations of many sizes and releases by the user, and adds. *)
NextAllocator ==
    AddMix \/ AllocSized \/ FreeMix \/ BurstAlloc \/ BurstFree \/ BurstAdd

SpecAlloc == Init /\ [][NextAllocator]_vars

(* ------------------------------ properties ----------------------------- *)

(* The root node of the tree is not a leaf. *)
RootHasChildren == ReadImage(disk, bt.rootptr).node.isleaf = 0

(* C1: after any sequence of adds without I/O failure, btree_find of a key *)
(* succeeds exactly when some add of the key succeeded, the bytes at the   *)
(* offset it returns are the value of the most recent successful add of    *)
(* the key, and a key never added gives not found.                         *)
FindReturnsLatestAdd ==
    \A k \in Keys :
        LET f == FindNow(k)
        IN  IF k \in DOMAIN amap
            THEN f.r = 0 /\ ~f.notfound /\ f.bytes = amap[k]
            ELSE f.r = -1 /\ f.notfound

(* A find, in a tree of two levels or more, of a key whose value an add    *)
(* replaced.                                                               *)
FoundReplacedValue ==
    /\ found # NoFind /\ found.r = 0
    /\ RootHasChildren
    /\ \E p \in prefixes : found.key \in DOMAIN p /\ p[found.key] # found.bytes

LastSync(c) ==
    LET syncs == {k \in 1..c : log[k].e = "s"}
    IN  IF syncs = {} THEN 0 ELSE CHOOSE k \in syncs : \A q \in syncs : q <= k

(* The writes among the first c calls that no sync has made durable. *)
Pending(c) == {k \in (LastSync(c) + 1)..c : log[k].e = "w"}

(* The file a.d after the writes a.i..a.c of the last operation, those of  *)
(* a.lost left out.                                                        *)
RECURSIVE ApplyWrites(_)
ApplyWrites(a) ==
    IF a.i > a.c THEN a.d
    ELSE ApplyWrites([a EXCEPT !.i = a.i + 1,
                               !.d = IF log[a.i].e = "w" /\ a.i \notin a.lost
                                     THEN ApplyWrite(a.d, log[a.i]) ELSE a.d])

(* The files a crash during the last operation can leave: the process      *)
(* stops after any number c of its calls, and each write that no sync      *)
(* followed is on the disk or not.  The file the operation started from is *)
(* durable: every operation before it ended with a sync.                   *)
CrashImages ==
    UNION {{ApplyWrites([d |-> disk0, i |-> 1, c |-> c, lost |-> lost])
               : lost \in SUBSET Pending(c)} : c \in 0..Len(log)}

(* struct btree as btree_read_metadata finds the root pointer on file d. *)
BtOn(d) == [bt EXCEPT !.rootptr = ReadU64(d, BTREE_HDR_ROOTPTR_POS)]

(* The keys found on file d, with their values. *)
Findable(d) ==
    LET fk == {k \in Keys : FindIn(d, BtOn(d), k).r = 0}
    IN  Array([k \in fk |-> FindIn(d, BtOn(d), k).bytes])

(* No find on file d ends on a read error or a corrupt node. *)
ReadsClean(d) == \A k \in Keys : LET f == FindIn(d, BtOn(d), k) IN f.r = 0 \/ f.notfound

(* C3: under the write barrier, whatever point of an add the process       *)
(* crashes at, the file left is a valid tree: no read of it reports a      *)
(* corrupt node and the keys found in it, with their values, are those     *)
(* after some prefix of the adds.                                          *)
CrashLeavesPrefix ==
    last.op = "add" =>
        \A d \in CrashImages : ReadsClean(d) /\ Findable(d) \in prefixes

(* Every operation leaves no write behind its last sync: what makes the    *)
(* file an operation starts from durable.                                  *)
EndsClean == Pending(Len(log)) = {}

(* The writes of a whole node image or of a value. *)
IsImageWrite(ev) == ev.e = "w" /\ ev.ty \in {"node", "val"}

(* The writes of a pointer slot: the root slot of the header, a child slot *)
(* or a value slot of a node.                                              *)
IsPointerWrite(ev) == ev.e = "w" /\ ev.ty = "u64" /\ ev.site \in {283, 785, 806, 906}

(* A sync lies strictly between the calls i and j of the last operation. *)
SyncBetween(i, j) == \E k \in (i + 1)..(j - 1) : log[k].e = "s"

(* C4: in every operation, a flush separates the write of a new node image *)
(* or value from the write of the pointer slot that publishes it.          *)
FlushBeforePublish ==
    \A i, j \in 1..Len(log) :
        (i < j /\ IsImageWrite(log[i]) /\ IsPointerWrite(log[j]) /\ log[j].v = log[i].a)
            => SyncBetween(i, j)

(* The calls of btree_free on the node or the value an add replaced. *)
IsFreeOfOld(ev) == ev.e = "free" /\ ev.site \in {787, 809, 909, 910}

(* C5: in every add, a flush separates the write of the pointer slot that  *)
(* publishes the new node or value from the call of btree_free on the old  *)
(* one.                                                                    *)
FlushBeforeFree ==
    \A i, j \in 1..Len(log) :
        (i < j /\ IsPointerWrite(log[i]) /\ IsFreeOfOld(log[j])) => SyncBetween(i, j)

(* ------------------------------ I/O errors ----------------------------- *)

MaxHeight == 4     \* the walks of the tree on the file stop at this depth

(* The offsets of the nodes reachable from the node at ptr on file d. *)
RECURSIVE NodesFrom(_, _, _)
NodesFrom(d, ptr, h) ==
    IF ptr = 0 \/ h = 0 THEN {}
    ELSE LET n == ReadImage(d, ptr).node
         IN  {ptr} \cup
             (IF n.isleaf # 0 THEN {}
              ELSE UNION {NodesFrom(d, n.children[i], h - 1) : i \in 0..n.numkeys})

(* The nodes reachable from the root pointer of file d. *)
ReachableNodes(d) == NodesFrom(d, ReadU64(d, BTREE_HDR_ROOTPTR_POS), MaxHeight)

(* The live allocations of file d: the reachable nodes and the values      *)
(* their keys point to.                                                    *)
LiveOffsets(d) ==
    ReachableNodes(d) \cup
    UNION {{ReadImage(d, p).node.values[i] : i \in 0..(ReadImage(d, p).node.numkeys - 1)}
              : p \in ReachableNodes(d)}

MaxChain == 3      \* the walks of a free list follow at most MaxChain blocks

(* The allocations that the free list blocks on file d, from the one at    *)
(* block on, count as free.                                                *)
RECURSIVE ChainEntries(_, _, _)
ChainEntries(d, block, h) ==
    IF h = 0 THEN {}
    ELSE LET next == ReadU64(d, block + 8)
             count == ReadU64(d, MetaCountPos(block))
         IN  {PtrOfFreelistItem(ReadU64(d, FreelistItemPos(block, k))) : k \in 0..(count - 1)}
             \cup (IF next # 0 THEN ChainEntries(d, next, h - 1) ELSE {})

(* The allocations that the free lists on file d count as free. *)
FreeEntries(d) ==
    UNION {ChainEntries(d, FreelistHeadPos(j), MaxChain) : j \in 0..(BTREE_FREELIST_COUNT - 1)}

(* C6: after an add during which one VFS call failed, the tree on the file *)
(* holds the keys and values committed before the add, or those with the   *)
(* add done, and no free list on the file counts a live node or value.     *)
SingleFailureLeavesTree ==
    (last.op = "add" /\ last.failAt > 0) =>
        /\ ReadsClean(disk)
        /\ Findable(disk) \in {amap, Bind(amap, last.key, [len |-> last.vlen, v |-> last.val])}
        /\ FreeEntries(disk) \cap LiveOffsets(disk) = {}

(* ------------------------------ reopening ------------------------------ *)

(* What btree_read_metadata rebuilds of struct btree b. *)
Metadata(b) ==
    [rootptr |-> b.rootptr, free |-> b.free, freeoff |-> b.freeoff,
     freelist |-> b.freelist]

(* C7: closing and reopening the file rebuilds the root pointer, free,     *)
(* freeoff and, for every size class, the chain of free list blocks and    *)
(* the count of the newest one, as they were in memory before the close;   *)
(* every find gives the same value offset and bytes as before.             *)
ReopenRebuildsState ==
    last.op = "reopen" =>
        /\ last.r = 0
        /\ Metadata(bt) = Metadata(bt0)
        /\ \A k \in Keys : FindNow(k) = FindIn(disk0, bt0, k)

(* A reopening of a file with keys and with a free list of two blocks. *)
ReopenedWithChain ==
    /\ last.op = "reopen"
    /\ amap # <<>>
    /\ \E j \in DOMAIN bt.freelist : Len(bt.freelist[j].blocks) > 1

(* ------------------------------ allocation sizes ----------------------- *)

(* C8: for every key found, btree_alloc_size of the value offset succeeds  *)
(* and gives the vlen of the add that stored the value, also when the      *)
(* value took a freed allocation that had another length.                  *)
AllocSizeIsVlen ==
    \A k \in DOMAIN amap :
        LET f == FindNow(k)
            sz == Call("BtreeAllocSize", <<Machine(0), f.voff>>)
        IN  f.r = 0 => sz.r = 0 /\ sz.size = amap[k].len

(* The last add stored its value in a freed allocation of another length   *)
(* (btree_alloc rewrote the length prefix), and the key was found there.   *)
FoundInReusedSlot ==
    /\ last.op = "add" /\ last.r = 0
    /\ found.key = last.key /\ found.r = 0
    /\ \E i \in 1..Len(log) :
          log[i].e = "w" /\ log[i].site = 572 /\ log[i].a + 8 = found.voff

(* ------------------------------ in-place writes ------------------------ *)

(* The reachable nodes of file d whose image write i of the last operation *)
(* touches.                                                                *)
NodesHit(d, i) ==
    {p \in ReachableNodes(d) : p < log[i].a + log[i].len /\ log[i].a < p + BTREE_NODE_SIZE}

(* The writes, from call a.i of the last operation on, that overwrite a    *)
(* byte of a node image reachable from the root: the number i of the call  *)
(* and the file d just before it.  a.d is the file before call a.i.        *)
RECURSIVE InPlaceFrom(_)
InPlaceFrom(a) ==
    IF a.i > Len(log) THEN {}
    ELSE IF log[a.i].e # "w" THEN InPlaceFrom([a EXCEPT !.i = a.i + 1])
    ELSE (IF NodesHit(a.d, a.i) # {} THEN {a} ELSE {})
         \cup InPlaceFrom([i |-> a.i + 1, d |-> ApplyWrite(a.d, log[a.i])])

InPlaceWrites == InPlaceFrom([i |-> 1, d |-> disk0])

(* The write h is the 8 bytes of the values slot of the added key in a     *)
(* reachable node, and the add is a replace.                               *)
IsValueSlotWrite(h) ==
    /\ log[h.i].ty = "u64" /\ last.replace = 1
    /\ \E p \in NodesHit(h.d, h.i) :
          LET n == ReadImage(h.d, p).node
          IN  \E x \in 0..(n.numkeys - 1) :
                 log[h.i].a = p + NodeValuesOff + 8*x /\ n.keys[x] = last.key

(* The write h is the 8 bytes of a children slot in use of a reachable     *)
(* node.                                                                   *)
IsChildSlotWrite(h) ==
    /\ log[h.i].ty = "u64"
    /\ \E p \in NodesHit(h.d, h.i) :
          LET n == ReadImage(h.d, p).node
          IN  n.isleaf = 0 /\ \E x \in 0..n.numkeys : log[h.i].a = p + NodeChildrenOff + 8*x

(* C9 as stated: an add overwrites no byte of a reachable node image but   *)
(* the values slot that a replace rewrites.                                *)
OnlyValueSlotInPlace ==
    last.op = "add" => \A h \in InPlaceWrites : IsValueSlotWrite(h)

(* C9: an add overwrites no byte of a reachable node image but the values  *)
(* slot that a replace rewrites and the children slot of a parent that it  *)
(* points to the new image of a child.                                     *)
OnlySlotsInPlace ==
    last.op = "add" =>
        \A h \in InPlaceWrites : IsValueSlotWrite(h) \/ IsChildSlotWrite(h)

(* A replace that rewrote the values slot of its key in a node below the   *)
(* root.                                                                   *)
ReplacedInPlace ==
    /\ last.op = "add" /\ last.r = 0
    /\ \E h \in InPlaceWrites : IsValueSlotWrite(h) /\ bt0.rootptr \notin NodesHit(h.d, h.i)

(* ------------------------------ node sizes ----------------------------- *)

(* The fewest keys of a node that is not the root. *)
MinKeys == (BTREE_MAX_KEYS + 2) \div 2 - 1

(* C10: every reachable node holds at most BTREE_MAX_KEYS keys, and every  *)
(* reachable node but the root at least ceil((BTREE_MAX_KEYS+1)/2)-1.      *)
NodeKeyCounts ==
    \A p \in ReachableNodes(disk) :
        LET n == ReadImage(disk, p).node
        IN  /\ n.numkeys <= BTREE_MAX_KEYS
            /\ p # bt.rootptr => n.numkeys >= MinKeys

(* After the split of a child of the root: a node of the fewest keys next  *)
(* to a root of two keys or more.                                          *)
ChildSplitHappened ==
    /\ ReadImage(disk, bt.rootptr).node.numkeys >= 2
    /\ \E p \in ReachableNodes(disk) :
          p # bt.rootptr /\ ReadImage(disk, p).node.numkeys = MinKeys

(* ------------------------------ key order ------------------------------ *)

(* The keys of the subtree of file d under the node at ptr. *)
RECURSIVE SubtreeKeys(_, _, _)
SubtreeKeys(d, ptr, h) ==
    IF ptr = 0 \/ h = 0 THEN {}
    ELSE LET n == ReadImage(d, ptr).node
         IN  {n.keys[i] : i \in 0..(n.numkeys - 1)} \cup
             (IF n.isleaf # 0 THEN {}
              ELSE UNION {SubtreeKeys(d, n.children[i], h - 1) : i \in 0..n.numkeys})

(* The keys of node n in use are strictly increasing in memcmp order. *)
KeysIncrease(n) ==
    \A i \in 0..(n.numkeys - 2) : Memcmp(n.keys[i], n.keys[i + 1]) < 0

(* Key i of the non-leaf node n separates the subtrees to its left and to  *)
(* its right.                                                              *)
KeySeparates(d, n, i) ==
    /\ \A k \in SubtreeKeys(d, n.children[i], MaxHeight) : Memcmp(k, n.keys[i]) < 0
    /\ \A k \in SubtreeKeys(d, n.children[i + 1], MaxHeight) : Memcmp(k, n.keys[i]) > 0

(* C11: in every reachable node the keys in use are strictly increasing,   *)
(* and in every reachable non-leaf node each key is greater than every key *)
(* under the child to its left and less than every key under the child to  *)
(* its right.                                                              *)
KeysOrdered ==
    \A p \in ReachableNodes(disk) :
        LET n == ReadImage(disk, p).node
        IN  /\ KeysIncrease(n)
            /\ n.isleaf = 0 => \A i \in 0..(n.numkeys - 1) : KeySeparates(disk, n, i)

(* A tree of two levels whose root holds two keys or more, filled in an    *)
(* order that is not the order of the keys.                                *)
OrderedAfterSplits ==
    /\ stride > 1 /\ last.op = "add" /\ last.r = 0
    /\ LET n == ReadImage(disk, bt.rootptr).node
       IN  n.isleaf = 0 /\ n.numkeys >= 2 /\ SubtreeKeys(disk, bt.rootptr, MaxHeight) = DOMAIN amap

(* ------------------------------ children ------------------------------- *)

(* C12: every reachable non-leaf node of k keys has its children slots 0   *)
(* to k nonzero, and every reachable leaf has all its BTREE_MAX_KEYS+1     *)
(* children slots zero.                                                    *)
ChildrenInUse ==
    \A p \in ReachableNodes(disk) :
        LET n == ReadImage(disk, p).node
        IN  IF n.isleaf # 0
            THEN \A i \in ChildIdx : n.children[i] = 0
            ELSE \A i \in 0..n.numkeys : n.children[i] # 0

(* The last add split a node that is neither the root nor a leaf. *)
SplitInnerNode ==
    /\ last.op = "add" /\ last.r = 0
    /\ \E i \in 1..Len(log) :
          /\ log[i].e = "w" /\ log[i].site = 883 /\ log[i].img.node.isleaf = 0
          /\ ReadImage(disk, bt.rootptr).node.numkeys > 1

(* ------------------------------ marks ---------------------------------- *)

(* The node writes of the last operation. *)
NodeWrites == {i \in 1..Len(log) : log[i].e = "w" /\ log[i].ty = "node"}

(* The file when a crash tears node write i of the last operation: the     *)
(* head of the new image is on the disk, its tail is not, so that the end  *)
(* mark is the one of the bytes that were there.                           *)
TornAt(i) ==
    LET d == ApplyWrites([d |-> disk0, i |-> 1, c |-> i - 1, lost |-> {}])
        old == ReadImage(d, log[i].a)
        torn == NodeImage(log[i].img.node, log[i].img.startmark, old.endmark)
    IN  PutCell(d, log[i].a, Cell("node", 0, BTREE_NODE_SIZE, torn))

TornFiles == {TornAt(i) : i \in NodeWrites}

(* The offsets of the node images of file d. *)
NodeOffsets(d) == {p \in DOMAIN d : d[p].t = "node"}

(* btree_read_node of the image at p of file d reports a corrupt node      *)
(* exactly when the marks of the image differ, and else gives the node.    *)
ReadChecksMarks(d, p) ==
    LET r == Call("BtreeReadNode", <<MachineOf(d, fsize, bt, 0), p>>)
        img == ReadImage(d, p)
    IN  /\ r.corrupt <=> img.startmark # img.endmark
        /\ r.ok <=> img.startmark = img.endmark

(* C13: every node image reachable from the root has equal start and end   *)
(* marks, and btree_read_node fails as corrupt exactly when the two marks  *)
(* of the image it read differ.                                            *)
MarksFrameNodes ==
    /\ \A p \in ReachableNodes(disk) :
          ReadImage(disk, p).startmark = ReadImage(disk, p).endmark
    /\ \A d \in TornFiles \cup {disk} : \A p \in NodeOffsets(d) : ReadChecksMarks(d, p)

(* A crash tore the new root image of the last add, and reading the root   *)
(* the header of that file points to reports a corrupt node.               *)
TornRootIsCorrupt ==
    /\ last.op = "add" /\ last.r = 0
    /\ \E i \in NodeWrites :
          /\ log[i].a = bt.rootptr
          /\ Call("BtreeReadNode", <<MachineOf(TornAt(i), fsize, bt, 0), bt.rootptr>>).corrupt

(* ------------------------------ free lists ----------------------------- *)

(* The number of entries of the free list blocks on file d, from the one   *)
(* at block on.                                                            *)
RECURSIVE ChainCount(_, _, _)
ChainCount(d, block, h) ==
    IF h = 0 THEN 0
    ELSE LET next == ReadU64(d, block + 8)
         IN  ReadU64(d, block + 8*2)
             + (IF next # 0 THEN ChainCount(d, next, h - 1) ELSE 0)

(* The number of entries of the free list of class j on file d. *)
ClassCount(d, j) == ChainCount(d, FreelistHeadPos(j), MaxChain)

(* The class of the allocations of size n. *)
SizeClass(n) == BtreeFreelistIndexByExp(BtreeLogTwo(BtreeAllocRealsize(n)))

(* The sizes tried from every state. *)
TrySizes == AllocSizes \cup {BTREE_FREELIST_BLOCK_SIZE}

(* p = alloc(n), free(p) and alloc(n) again, from the present state. *)
AllocFreeAlloc(n) ==
    LET a == Call("BtreeAlloc", <<Machine(0), n>>)
        f == Call("BtreeFree", <<a.m, a.r, 0>>)
        b == Call("BtreeAlloc", <<f.m, n>>)
    IN  [a |-> a, f |-> f, b |-> b]

(* free(p) made p the new newest block of its class: the class is the one  *)
(* of the free list blocks and its newest block was full.                  *)
BecameBlock(t, j) ==
    /\ j = BtreeFreelistIndexByExp(BTREE_FREELIST_SIZE_EXP)
    /\ t.a.m.freelist[j].last_items = BTREE_FREELIST_BLOCK_ITEMS
    /\ t.f.m.freelist[j] =
          [blocks |-> Append(t.a.m.freelist[j].blocks, t.a.r), last_items |-> 0]
    /\ ClassCount(t.f.m.disk, j) = ClassCount(t.a.m.disk, j)

(* C14, as stated: from every reachable state and for every size n, after  *)
(* p = alloc(n) and free(p) the free list of the class of n has one entry  *)
(* more than before the free, and the next alloc(n) returns p.             *)
FreeAddsOneEntry ==
    \A n \in TrySizes :
        LET t == AllocFreeAlloc(n)
        IN  (t.a.r # 0 /\ ~t.a.m.hang) =>
                /\ t.f.r = 0
                /\ ClassCount(t.f.m.disk, SizeClass(n)) = ClassCount(t.a.m.disk, SizeClass(n)) + 1
                /\ t.b.r = t.a.r

(* C14: from every reachable state and for every size n, after             *)
(* p = alloc(n) and free(p) the free list of the class of n has one entry  *)
(* more than before the free, or p has become the new newest block of the  *)
(* class (the class of the free list blocks, its newest block full); in    *)
(* both cases the next alloc(n) returns p.                                 *)
FreeThenAllocGivesBack ==
    \A n \in TrySizes :
        LET t == AllocFreeAlloc(n)
            j == SizeClass(n)
        IN  (t.a.r # 0 /\ ~t.a.m.hang) =>
                /\ t.f.r = 0
                /\ \/ ClassCount(t.f.m.disk, j) = ClassCount(t.a.m.disk, j) + 1
                   \/ BecameBlock(t, j)
                /\ t.b.r = t.a.r

(* The last alloc took from a free list of several entries the allocation  *)
(* that the last free before it had put there.                             *)
PoppedLastFreed ==
    /\ last.op = "alloc" /\ last.ptr # 0
    /\ ClassCount(disk0, SizeClass(last.vlen)) > 1
    /\ LET fl == bt0.freelist[SizeClass(last.vlen)]
           block == fl.blocks[Len(fl.blocks)]
       IN  /\ fl.last_items > 1
           /\ ReadU64(disk0, FreelistItemPos(block, fl.last_items - 1)) = last.ptr - 8
    /\ \E i \in 1..Len(log) : log[i].e = "w" /\ log[i].site = 533

(* ------------------------------ slots ---------------------------------- *)

RECURSIVE TwoTo(_)
TwoTo(k) == IF k = 0 THEN 1 ELSE 2 * TwoTo(k - 1)

(* The least exponent from k on whose power of two is at least x. *)
RECURSIVE LeastExp(_, _)
LeastExp(k, x) == IF TwoTo(k) >= x THEN k ELSE LeastExp(k + 1, x)

(* The exponent of the smallest power of two that is at least size + 8 and *)
(* at least 16, for a size below 2^30 - 8.                                 *)
PhysicalExp(size) == LeastExp(4, size + 8)

PhysicalSize(size) == TwoTo(PhysicalExp(size))

(* btree_alloc of the last call took its slot at the free offset. *)
Bumped ==
    /\ \E i \in 1..Len(log) :
          log[i].e = "w" /\ log[i].site = 597 /\ log[i].a = last.ptr - 8
    /\ last.ptr - 8 = bt0.freeoff
    /\ bt.freeoff = bt0.freeoff + PhysicalSize(last.vlen)

(* btree_alloc of the last call took its slot from the free list j: an     *)
(* entry of the list or, for the class of the blocks, its empty newest     *)
(* block; the length that the prefix of the slot held is of class j.       *)
PoppedFrom(j) ==
    /\ bt.freeoff = bt0.freeoff
    /\ PhysicalExp(ReadU64(disk0, last.ptr - 8)) - 4 = j
    /\ \/ last.ptr \in ChainEntries(disk0, FreelistHeadPos(j), MaxChain)
       \/ /\ j = BTREE_FREELIST_SIZE_EXP - 4
          /\ Len(bt0.freelist[j].blocks) > 1
          /\ bt0.freelist[j].blocks[Len(bt0.freelist[j].blocks)] = last.ptr

(* btree_free of the last call put the slot in the free list j: as an      *)
(* entry or, for the class of the blocks, as its new newest block.         *)
PushedTo(j) ==
    \/ last.ptr \in ChainEntries(disk, FreelistHeadPos(j), MaxChain)
    \/ /\ j = BTREE_FREELIST_SIZE_EXP - 4
       /\ bt.freelist[j].blocks[Len(bt.freelist[j].blocks)] = last.ptr

SlotConsumed(x) ==
    IF \E i \in 1..Len(log) : log[i].e = "w" /\ log[i].site = 597 /\ log[i].a = last.ptr - 8
    THEN bt0.freeoff = last.ptr - 8 /\ bt.freeoff = bt0.freeoff + x
    ELSE PoppedFrom(LeastExp(4, x) - 4)

AllocOverLimitFails ==
    (last.op = "alloc" /\ UnsignedLess(MaxAlloc, last.vlen)) =>
        /\ ~last.hung
        /\ last.ptr = 0
        /\ bt = bt0 /\ disk = disk0 /\ log = <<>>

(* C18: btree_alloc of 2^31 - 1 bytes returns, and returns an offset that  *)
(* is not 0.                                                               *)
AllocAtLimitSucceeds ==
    (last.op = "alloc" /\ last.vlen = MaxAlloc) =>
        ~last.hung /\ last.ptr # 0

(* ------------------------------ free space ----------------------------- *)

(* The allocations in use or in a free list: those the caller holds, the   *)
(* nodes and values of the tree, and the entries of the free lists.        *)
Allocated == held \cup LiveOffsets(disk) \cup FreeEntries(disk)

(* C19: in every reachable state free has not wrapped below zero,          *)
(* freeoff + free is at most the file size, and no allocated slot reaches  *)
(* into the free space from freeoff on.                                    *)
FreeSpaceInsideFile ==
    /\ bt.free >= 0
    /\ bt.freeoff + bt.free <= fsize
    /\ ReadU64(disk, BTREE_HDR_FREE_POS) = bt.free
    /\ ReadU64(disk, BTREE_HDR_FREEOFF_POS) = bt.freeoff
    /\ \A p \in Allocated :
          (p - 8) + PhysicalSize(ReadU64(disk, p - 8)) <= bt.freeoff

(* ------------------------------ the block class ------------------------ *)

(* The last call freed an allocation of the size of the free list blocks   *)
(* while the newest block of that class was full.                          *)
FreedBlockSizeAtFull ==
    /\ last.op = "free" /\ last.r = 0
    /\ PhysicalExp(ReadU64(disk0, last.ptr - 8)) = BTREE_FREELIST_SIZE_EXP
    /\ bt0.freelist[BTREE_FREELIST_SIZE_EXP - 4].last_items = BTREE_FREELIST_BLOCK_ITEMS

(* C20: btree_free of a slot of the class of exponent 11 while the newest  *)
(* block of that class is full (count = K) allocates nothing (no pop, no   *)
(* bump, no resize): the slot gets prev = the previous newest block,       *)
(* next = 0 and count = 0, and is linked as the new newest block.          *)
FullBlockFreeLinksSlot ==
    FreedBlockSizeAtFull =>
        LET j == BTREE_FREELIST_SIZE_EXP - 4
            old == bt0.freelist[j].blocks
            prev == old[Len(old)]
        IN  /\ \A i \in 1..Len(log) :
                  /\ log[i].e # "rs"
                  /\ log[i].e = "w" => log[i].site \notin {499, 533, 572, 593, 594, 597}
            /\ bt.free = bt0.free /\ bt.freeoff = bt0.freeoff
            /\ ReadU64(disk, last.ptr) = prev
            /\ ReadU64(disk, last.ptr + 8) = 0
            /\ ReadU64(disk, last.ptr + 16) = 0
            /\ ReadU64(disk, prev + 8) = last.ptr
            /\ bt.freelist[j] = [blocks |-> Append(old, last.ptr), last_items |-> 0]
            /\ \A q \in DOMAIN bt.freelist : q # j => bt.freelist[q] = bt0.freelist[q]

(* The freed slot is the second block of its free list, behind a full one. *)
FreedSlotIsNewestBlock ==
    /\ FreedBlockSizeAtFull
    /\ Len(bt.freelist[BTREE_FREELIST_SIZE_EXP - 4].blocks) = 2
    /\ ReadU64(disk, FreelistHeadPos(BTREE_FREELIST_SIZE_EXP - 4) + 8) = last.ptr
    /\ ReadU64(disk, FreelistHeadPos(BTREE_FREELIST_SIZE_EXP - 4) + 16) = BTREE_FREELIST_BLOCK_ITEMS

(* ------------------------------ the first split ------------------------ *)

(* The root node of the file. *)
RootNode == ReadImage(disk, bt.rootptr).node

(* The tree holds just BTREE_MAX_KEYS + 1 keys, each added once. *)
JustOverFull ==
    /\ Cardinality(DOMAIN amap) = BTREE_MAX_KEYS + 1
    /\ nops = BTREE_MAX_KEYS + 1

(* The root is not a leaf and has one key between two leaves, and nothing  *)
(* else; left and right are the key counts of the leaves.                  *)
RootOverTwoLeaves(left, right) ==
    LET l == ReadImage(disk, RootNode.children[0]).node
        r == ReadImage(disk, RootNode.children[1]).node
    IN  /\ RootNode.isleaf = 0 /\ RootNode.numkeys = 1
        /\ RootNode.children[0] # 0 /\ RootNode.children[1] # 0
        /\ \A j \in ChildIdx : j > 1 => RootNode.children[j] = 0
        /\ l.isleaf # 0 /\ r.isleaf # 0
        /\ l.numkeys = left /\ r.numkeys = right

(* C21, as stated: after BTREE_MAX_KEYS + 1 distinct keys were added to a  *)
(* new tree, in any order, the root is a non-leaf with one key and two     *)
(* children, both leaves of halflen keys.                                  *)
TwoLeavesOfHalflen ==
    JustOverFull => RootOverTwoLeaves(Halflen, Halflen)

(* C21: after BTREE_MAX_KEYS + 1 distinct keys were added to a new tree,   *)
(* in any order, the root is a non-leaf with one key and two children,     *)
(* both leaves: one of halflen keys and, as the last key went to a leaf    *)
(* after the split, the other of halflen + 1 keys.                         *)
TwoLeavesAfterFirstSplit ==
    JustOverFull =>
        \/ RootOverTwoLeaves(Halflen, Halflen + 1)
        \/ RootOverTwoLeaves(Halflen + 1, Halflen)

(* The keys went in in an order that is neither up nor down, and the last  *)
(* one went to the left leaf.                                              *)
LastKeyWentLeft ==
    /\ stride = -5 /\ JustOverFull
    /\ last.op = "add" /\ last.r = 0 /\ last.key \notin {1, NOrder}
    /\ RootOverTwoLeaves(Halflen + 1, Halflen)

(* ------------------------------ root growth ---------------------------- *)

(* The root when the last operation began. *)
OldRoot == ReadImage(disk0, bt0.rootptr).node

(* The last operation was an add that found the root full. *)
AddOnFullRoot == last.op = "add" /\ OldRoot.numkeys = BTREE_MAX_KEYS

(* The keys of the old root before and after its median. *)
OldRootLeftKeys == {OldRoot.keys[j] : j \in 0..(Halflen - 1)}
OldRootRightKeys == {OldRoot.keys[j] : j \in (Halflen + 1)..(BTREE_MAX_KEYS - 1)}

(* The keys of the tree when the last operation began. *)
OldKeys == SubtreeKeys(disk0, bt0.rootptr, MaxHeight)

(* The key that the last add put in the tree, if it did. *)
AddedKey == IF last.r = 0 THEN {last.key} ELSE {}

(* The root is another node than before, not a leaf, and its only key is   *)
(* the median of the old root; the node to its left has the first halflen  *)
(* keys of the old root and the node to its right the last halflen; the    *)
(* subtrees hold the keys of the tree below and above the median, with the *)
(* added key on its side.                                                  *)
GrownAroundMedian ==
    LET median == OldRoot.keys[Halflen]
        l == RootNode.children[0]
        r == RootNode.children[1]
        lkeys == SubtreeKeys(disk, l, MaxHeight)
        rkeys == SubtreeKeys(disk, r, MaxHeight)
    IN  /\ bt.rootptr # bt0.rootptr
        /\ RootNode.isleaf = 0 /\ RootNode.numkeys = 1
        /\ RootNode.keys[0] = median
        /\ l # 0 /\ r # 0
        /\ OldRootLeftKeys \subseteq
              {ReadImage(disk, l).node.keys[j] : j \in 0..(ReadImage(disk, l).node.numkeys - 1)}
        /\ OldRootRightKeys \subseteq
              {ReadImage(disk, r).node.keys[j] : j \in 0..(ReadImage(disk, r).node.numkeys - 1)}
        /\ lkeys = {k \in OldKeys \cup AddedKey : k < median}
        /\ rkeys = {k \in OldKeys \cup AddedKey : k > median}

(* C22, as stated: after every add called with a full root, the root is a  *)
(* new non-leaf node whose only key, with its value offset, is the median  *)
(* of the old root, the left subtree holding the old root's first halflen  *)
(* keys and the right its last halflen, the added key on its side.         *)
RootGrowthKeepsMedianValue ==
    AddOnFullRoot =>
        /\ GrownAroundMedian
        /\ RootNode.values[0] = OldRoot.values[Halflen]

(* C22: after every add called with a full root, the root is a new         *)
(* non-leaf node whose only key is the median of the old root, the left    *)
(* subtree holding the old root's first halflen keys and the right its     *)
(* last halflen, the added key on its side; the value offset of the key is *)
(* that of the median, unless the add replaced the value of that very key. *)
RootGrowsAroundMedian ==
    AddOnFullRoot =>
        /\ GrownAroundMedian
        /\ IF last.r = 0 /\ last.key = OldRoot.keys[Halflen]
           THEN ReadVal(disk, RootNode.values[0]) = [len |-> last.vlen, v |-> last.val]
           ELSE RootNode.values[0] = OldRoot.values[Halflen]

(* A full root that was not a leaf was split by the last add. *)
InnerRootGrew ==
    /\ AddOnFullRoot /\ last.r = 0
    /\ OldRoot.isleaf = 0
    /\ RootNode.numkeys = 1

(* --------------------------- short transfers --------------------------- *)

(* C23: an add during which a VFS pread or pwrite transfers fewer bytes    *)
(* than requested fails, instead of going on with the buffer or the file   *)
(* as the transfer left it.                                                *)
ShortTransferFailsAdd ==
    (last.op = "add" /\ last.short) => last.r = -1

(* -------------------------- failed allocations ------------------------- *)

(* C24: a call of btree_alloc during which a VFS call failed returns 0,    *)
(* unless the allocation was performed all the same (the result is then    *)
(* the offset of a slot whose prefix holds the size); so a caller that     *)
(* tests the result against 0 never takes a failed allocation for an       *)
(* offset.                                                                 *)
FailedAllocReturnsZero ==
    (last.op = "alloc" /\ last.failAt > 0) =>
        \/ last.ptr = 0
        \/ last.ptr > 8 /\ ReadU64(disk, last.ptr - 8) = last.vlen

(* ------------------------------ the new file --------------------------- *)

(* Nothing was done since btree_open created the file. *)
JustCreated == nops = 0 /\ nopen = 0

(* Class j has one free list block, the one of the header, without entry   *)
(* and without neighbour, in memory and in the file.                       *)
OnlyHeadBlock(j) ==
    LET head == 32 + BTREE_FREELIST_BLOCK_SIZE * j
    IN  /\ bt.freelist[j].blocks = <<head>>
        /\ bt.freelist[j].last_items = 0
        /\ ReadU64(disk, head) = 0
        /\ ReadU64(disk, head + 8) = 0
        /\ ReadU64(disk, head + 16) = 0

(* The root pointer of the header is the first slot that btree_alloc gave, *)
(* at the free offset that btree_create set, and it holds an empty leaf.   *)
RootIsFirstAllocation ==
    /\ ReadU64(disk, BTREE_HDR_ROOTPTR_POS) = bt.rootptr
    /\ bt.rootptr = CreateSize + 8
    /\ ReadU64(disk, bt.rootptr - 8) = BTREE_NODE_SIZE
    /\ bt.freeoff > bt.rootptr + BTREE_NODE_SIZE
    /\ ReadU64(disk, BTREE_HDR_FREEOFF_POS) = bt.freeoff
    /\ RootNode.numkeys = 0 /\ RootNode.isleaf = 1

(* C25: after btree_open created the file, each of the 28 size classes has *)
(* one free list block, that of the header, with prev = next = count = 0,  *)
(* the root pointer of the header references an empty leaf that the        *)
(* allocator gave, and btree_find of every key reports that it is absent.  *)
NewFileIsEmpty ==
    JustCreated =>
        /\ BTREE_FREELIST_COUNT = 28
        /\ \A j \in 0..27 : OnlyHeadBlock(j)
        /\ RootIsFirstAllocation
        /\ \A k \in Keys : FindNow(k).r = -1 /\ FindNow(k).notfound
        /\ found # NoFind => found.r = -1 /\ found.notfound

(* btree_find was called on the file just created and found nothing. *)
FoundNothingInNewFile ==
    JustCreated /\ found # NoFind /\ found.notfound

(* ------------------------------ the barrier ---------------------------- *)

(* The sync point that follows the write issued at each of these lines of  *)
(* btree.c: the line of its btree_sync.                                    *)
SyncPointAfter ==
    (275 :> 280) @@ (283 :> 285) @@ (499 :> 500) @@ (533 :> 534) @@ (572 :> 574)
    @@ (597 :> 600) @@ (661 :> 662) @@ (665 :> 666) @@ (683 :> 684)
    @@ (687 :> 688) @@ (697 :> 698) @@ (704 :> 705) @@ (782 :> 783) @@ (902 :> 905)

(* The writes of the last operation that a sync point follows. *)
WritesBeforeSync ==
    {i \in 1..Len(log) : log[i].e = "w" /\ log[i].site \in DOMAIN SyncPointAfter}

(* The last operation called the VFS sync. *)
Flushed == \E i \in 1..Len(log) : log[i].e = "s"

(* The last operation was one of alloc, free, add and open. *)
Operated == last.op \in {"add", "alloc", "free", "open", "reopen"}

(* C26: btree_open leaves the barrier flag set; an operation that starts   *)
(* with the flag set calls the VFS sync at every sync point it comes to,   *)
(* and one that starts with the flag cleared never calls it.               *)
BarrierDecidesFlush ==
    /\ last.op \in {"open", "reopen"} => bt.flags % 2 = 1
    /\ (Operated /\ bt0.flags % 2 = 1) =>
          \A i \in WritesBeforeSync :
              i < Len(log) /\ log[i + 1].e = "s" /\ log[i + 1].site = SyncPointAfter[log[i].site]
    /\ (Operated /\ bt0.flags % 2 = 0) => ~Flushed

(* An add wrote with the flag cleared, and flushed nothing. *)
WroteWithoutBarrier ==
    /\ last.op = "add" /\ last.r = 0
    /\ bt0.flags % 2 = 0
    /\ WritesBeforeSync # {}
    /\ ~Flushed

(* ------------------------------ the asserts ---------------------------- *)

(* The nodes that the splits of the last add wrote as left halves. *)
SplitsDone == {i \in 1..Len(log) : log[i].e = "w" /\ log[i].site = 882}

(* The leaves that the last add wrote with a key more. *)
LeafInserts == {i \in 1..Len(log) : log[i].e = "w" /\ log[i].site = 804}

(* The leaves that the last add released after writing them anew. *)
LeafReleases == {i \in 1..Len(log) : log[i].e = "free" /\ log[i].site = 809}

(* C27: no add stops at an assertion of btree_split_child, that is, every  *)
(* child it splits has MAX_KEYS keys and every parent fewer; and the leaf  *)
(* that receives a key has fewer than MAX_KEYS keys before it.             *)
SplitAssertsHold ==
    last.op = "add" =>
        /\ ~last.aborted
        /\ \A i \in LeafInserts : log[i].img.node.numkeys <= BTREE_MAX_KEYS
        /\ \A i \in LeafReleases :
               ReadImage(disk, log[i].a).node.numkeys < BTREE_MAX_KEYS

(* An add split a child below the root and then put its key in a leaf. *)
SplitBelowRootThenInsert ==
    /\ last.op = "add" /\ last.r = 0 /\ ~last.aborted
    /\ \E i \in 1..Len(log) :
          /\ log[i].e = "w" /\ log[i].site = 902
          /\ log[i].img.node.numkeys > 1
    /\ SplitsDone # {} /\ LeafInserts # {} /\ LeafReleases # {}

(* ------------------------ order of free list writes -------------------- *)

(* Call i of the last operation is a write from line site of btree.c. *)
WriteFrom(i, site) == log[i].e = "w" /\ log[i].site = site

(* Write j sets a count after a push: the item it counts was written to    *)
(* the slot of the count before, and flushed.                              *)
ItemBeforeCount(j) ==
    \E i \in 1..(j - 1) :
        /\ WriteFrom(i, 697)
        /\ log[i].a = (log[j].a - 8*2) + 8*3 + 8 * (log[j].v - 1)
        /\ \E k \in (i + 1)..(j - 1) : log[k].e = "s"

(* Write j links a new block from the newest one: its prev, next and count *)
(* were written, next and count as 0, and flushed.                         *)
InitBeforeLink(j) ==
    LET new == log[j].v
        prev == log[j].a - 8
        Inited(a, v) ==
            \E i \in 1..(j - 1) :
                /\ log[i].e = "w" /\ log[i].a = a /\ log[i].v = v
                /\ \E k \in (i + 1)..(j - 1) : log[k].e = "s"
    IN  Inited(new, prev) /\ Inited(new + 8, 0) /\ Inited(new + 8*2, 0)

(* The blocks of the free list on file d that starts at block. *)
RECURSIVE LinkedFrom(_, _, _)
LinkedFrom(d, block, h) ==
    IF h = 0 THEN {}
    ELSE LET next == ReadU64(d, block + 8)
         IN  {block} \cup (IF next # 0 THEN LinkedFrom(d, next, h - 1) ELSE {})

(* The blocks of all the free lists on file d. *)
Linked(d) ==
    UNION {LinkedFrom(d, 32 + BTREE_FREELIST_BLOCK_SIZE * j, MaxChain)
               : j \in 0..(BTREE_FREELIST_COUNT - 1)}

(* Offset a is a slot of block b that the count of b on file d covers. *)
Covered(d, b, a) == b + 8*3 <= a /\ a < b + 8*3 + 8 * ReadU64(d, b + 8*2)

(* The file after the first c calls of the last operation, the writes of   *)
(* lost left out; and what is durable of it then.                          *)
FileAt(c, lost) == ApplyWrites([d |-> disk0, i |-> 1, c |-> c, lost |-> lost])
DurableAt(c) == FileAt(LastSync(c), {})

(* On the file that a crash after c calls leaves without the writes of     *)
(* lost, no write that was not flushed is in a slot that the count of a    *)
(* linked block covers, and a block that such a write linked is durably    *)
(* initialised.                                                            *)
CountsCoverDurable(c, lost) ==
    LET d == FileAt(c, lost)
        dur == DurableAt(c)
    IN  \E ld \in {Linked(d)}, ldur \in {Linked(dur)} :
        \A b \in ld :
            /\ \A k \in Pending(c) \ lost : ~Covered(d, b, log[k].a)
            /\ b \notin ldur =>
                  /\ ReadU64(dur, b) \in ldur
                  /\ ReadU64(dur, b + 8) = 0
                  /\ ReadU64(dur, b + 8*2) = 0

(* C28: in every add, alloc and free, the write of a count after a push follows the  *)
(* write of the item to the slot of the old count and a flush, and the     *)
(* write that links a new block follows the writes of its prev, next = 0   *)
(* and count = 0 and a flush; so on the file left by a crash at any point  *)
(* the count of every linked block covers durable items only.              *)
FreeListWritesInOrder ==
    last.op \in {"add", "alloc", "free"} =>
        /\ \A j \in 1..Len(log) : WriteFrom(j, 704) => ItemBeforeCount(j)
        /\ \A j \in 1..Len(log) :
              (WriteFrom(j, 665) \/ WriteFrom(j, 687)) => InitBeforeLink(j)
        /\ \A c \in 1..Len(log) :
              \A lost \in (SUBSET Pending(c)) \ {Pending(c)} : CountsCoverDurable(c, lost)

(* A free made a new block, linked it and pushed its item to it. *)
PushedToNewBlock ==
    /\ last.op = "free"
    /\ \E i, j \in 1..Len(log) : i < j /\ WriteFrom(i, 687) /\ WriteFrom(j, 704)

(* ---------------------------- unlinking a block ------------------------ *)

(* The free list of the class that the last allocation asked for, when the *)
(* allocation began.                                                       *)
AskedList == bt0.freelist[SizeClass(last.vlen)]

(* The last operation was an allocation by the user that found the newest  *)
(* block of its class empty and an older block before it.                  *)
AllocOnEmptyNewest ==
    /\ last.op = "alloc" /\ ~last.hung
    /\ UnsignedLess(0, last.vlen) /\ ~UnsignedLess(TwoTo31, last.vlen)
    /\ AskedList.last_items = 0
    /\ Len(AskedList.blocks) > 1

(* The class of the free list blocks. *)
BlockClass == BTREE_FREELIST_SIZE_EXP - 4

(* The allocation unlinked the newest block of its class: it wrote 0 as    *)
(* the next pointer of the block before and flushed, and the chain in      *)
(* memory and in the file ends at that block.                              *)
NewestUnlinked ==
    LET n == Len(AskedList.blocks)
        prev == AskedList.blocks[n - 1]
    IN  /\ Len(log) >= 2
        /\ log[1].e = "w" /\ log[1].site = 499 /\ log[1].a = prev + 8 /\ log[1].v = 0
        /\ log[2].e = "s"
        /\ bt.freelist[SizeClass(last.vlen)].blocks = SubSeq(AskedList.blocks, 1, n - 1)
        /\ ReadU64(disk, prev + 8) = 0

(* C29: an allocation that finds the newest block of its class empty and   *)
(* an older block before it unlinks the newest block; in the class of the  *)
(* blocks it returns the unlinked block, in any other class it frees the   *)
(* unlinked block to the class of the blocks and returns the item of slot  *)
(* K-1 of the block before.                                                *)
EmptyNewestBlockUnlinked ==
    AllocOnEmptyNewest =>
        LET n == Len(AskedList.blocks)
            prev == AskedList.blocks[n - 1]
            newest == AskedList.blocks[n]
            top == prev + 8*3 + 8 * (BTREE_FREELIST_BLOCK_ITEMS - 1)
            blocks == bt.freelist[BlockClass]
        IN  /\ NewestUnlinked
            /\ IF SizeClass(last.vlen) = BlockClass
               THEN last.ptr = newest
               ELSE /\ last.ptr = ReadU64(disk0, top) + 8
                    /\ bt.freelist[SizeClass(last.vlen)].last_items
                          = BTREE_FREELIST_BLOCK_ITEMS - 1
                    /\ ReadU64(disk, prev + 8*2) = BTREE_FREELIST_BLOCK_ITEMS - 1
                    /\ \E i \in 1..Len(log) :
                          log[i].e = "free" /\ log[i].a = newest
                    /\ blocks.last_items = bt0.freelist[BlockClass].last_items + 1
                    /\ ReadU64(disk, blocks.blocks[Len(blocks.blocks)] + 8*3
                                        + 8 * (blocks.last_items - 1)) = newest - 8

(* The unlinked block was returned as the allocation. *)
UnlinkedBlockReturned ==
    AllocOnEmptyNewest /\ SizeClass(last.vlen) = BlockClass /\ last.ptr # 0

(* The unlinked block was freed and the allocation came from the block     *)
(* before.                                                                 *)
UnlinkedBlockFreed ==
    AllocOnEmptyNewest /\ SizeClass(last.vlen) # BlockClass /\ last.ptr # 0

(* ------------------------------ full blocks ---------------------------- *)

(* The items of the block at b on the file: those of its first n slots. *)
ItemsOf(b, n) == {ReadU64(disk, b + 8*3 + 8*k) : k \in 0..(n - 1)}

(* The block at b holds K items: its count is K and its K slots hold the   *)
(* offsets of K different slots of class j.                                *)
HoldsAllItems(b, j) ==
    /\ ReadU64(disk, b + 8*2) = BTREE_FREELIST_BLOCK_ITEMS
    /\ Cardinality(ItemsOf(b, BTREE_FREELIST_BLOCK_ITEMS)) = BTREE_FREELIST_BLOCK_ITEMS
    /\ \A p \in ItemsOf(b, BTREE_FREELIST_BLOCK_ITEMS) :
          p > 0 /\ PhysicalExp(ReadU64(disk, p)) - 4 = j

(* C30: in every class, the blocks of the free list in memory are those    *)
(* linked in the file, every block but the newest holds K items, and       *)
(* last_items is the count of the newest on the file.                      *)
OlderBlocksFull ==
    ~last.hung =>
    \A j \in 0..(BTREE_FREELIST_COUNT - 1) :
        LET fl == bt.freelist[j]
            n == Len(fl.blocks)
        IN  /\ n >= 1
            /\ fl.blocks[1] = 32 + BTREE_FREELIST_BLOCK_SIZE * j
            /\ ReadU64(disk, fl.blocks[n] + 8) = 0
            /\ ReadU64(disk, fl.blocks[n] + 8*2) = fl.last_items
            /\ \A i \in 1..(n - 1) :
                  /\ ReadU64(disk, fl.blocks[i] + 8) = fl.blocks[i + 1]
                  /\ HoldsAllItems(fl.blocks[i], j)

(* The class of the blocks has a block behind the newest, which holds an   *)
(* item that a free pushed.                                                *)
FullBlockBehindNewest ==
    /\ last.op = "free" /\ ~last.hung
    /\ Len(bt.freelist[BlockClass].blocks) > 1
    /\ bt.freelist[BlockClass].last_items >= 1

(* ------------------------------ alignment ------------------------------ *)

(* C31: every write of a pointer slot in place (the values slot of a       *)
(* replace, a children slot of a parent, the root pointer of the header)   *)
(* is at an offset of the file that is a multiple of 8.                    *)
PointerSlotsAligned ==
    \A i \in 1..Len(log) :
        (log[i].e = "w" /\ log[i].ty = "u64" /\ log[i].site \in {283, 785, 806, 906})
            => log[i].a % 8 = 0

(* ------------------------------ the slots ------------------------------ *)

(* The free list blocks linked on the file behind those of the header. *)
LinkedBlocks ==
    Linked(disk) \ {32 + BTREE_FREELIST_BLOCK_SIZE * j : j \in 0..(BTREE_FREELIST_COUNT - 1)}

(* The allocations in use: those of the tree and those the caller holds. *)
LiveSlots == held \cup LiveOffsets(disk)

(* Every allocation known to the caller, the tree or the free lists. *)
KnownSlots == LiveSlots \cup FreeEntries(disk) \cup LinkedBlocks

(* The end of the slot of the allocation at p. *)
SlotEnd(p) == (p - 8) + PhysicalSize(ReadU64(disk, p - 8))

(* The number of items that the free lists of the classes from j on count. *)
RECURSIVE CountedFrom(_)
CountedFrom(j) ==
    IF j >= BTREE_FREELIST_COUNT THEN 0 ELSE ClassCount(disk, j) + CountedFrom(j + 1)

(* The known slots follow one another from the first free offset up to the *)
(* present one: the first begins where btree_create put the free offset,   *)
(* each ends where another begins or at the free offset, and no two end at *)
(* the same place.                                                         *)
SlotsTile ==
    \E known \in {KnownSlots} :
    \E ends \in {{SlotEnd(p) : p \in known}} :
        /\ known # {} => CreateSize + 8 \in known
        /\ known = {} => bt.freeoff = CreateSize
        /\ Cardinality(ends) = Cardinality(known)
        /\ \A e \in ends : e = bt.freeoff \/ e + 8 \in known
        /\ \A q \in known : q - 8 >= CreateSize

(* C32: the slots taken from the free space are, each exactly one of them, *)
(* live (in the tree or held by the caller), an item that one free list    *)
(* block of its class counts, or a linked free list block; they cover the  *)
(* file from the first free offset to the present one without overlap.     *)
SlotsPartitioned ==
    ~last.hung =>
        /\ held \cap LiveOffsets(disk) = {}
        /\ LiveSlots \cap FreeEntries(disk) = {}
        /\ LiveSlots \cap LinkedBlocks = {}
        /\ FreeEntries(disk) \cap LinkedBlocks = {}
        /\ Cardinality(FreeEntries(disk)) = CountedFrom(0)
        /\ \A j \in 0..(BTREE_FREELIST_COUNT - 1) :
              \A q \in ChainEntries(disk, 32 + BTREE_FREELIST_BLOCK_SIZE * j, MaxChain) :
                  PhysicalExp(ReadU64(disk, q - 8)) - 4 = j
        /\ SlotsTile

(* An add went on a file with items in the free lists, a linked block and  *)
(* allocations of the caller.                                              *)
AddedAmongAllKinds ==
    /\ last.op = "add" /\ last.r = 0
    /\ held # {} /\ LinkedBlocks # {} /\ FreeEntries(disk) # {}

(* ------------------------ reuse after a crash -------------------------- *)

(* The free list blocks linked on file d behind those of the header. *)
LinkedBehindHeads(d) ==
    Linked(d) \ {32 + BTREE_FREELIST_BLOCK_SIZE * j : j \in 0..(BTREE_FREELIST_COUNT - 1)}

(* C33: under the write barrier, on the file that a crash at any point of  *)
(* an add leaves, no node or value reachable from the root pointer is an   *)
(* item that a free list block counts, or a linked free list block.        *)
NoLiveOffsetFreeAfterCrash ==
    (last.op = "add" /\ ~last.hung) =>
        \A d \in CrashImages :
            LiveOffsets(d) \cap (FreeEntries(d) \cup LinkedBehindHeads(d)) = {}

(* --------------------------- rejected adds ----------------------------- *)

(* The last call was an add of a present key that was not to replace it   *)
(* and was rejected for that.                                              *)
RejectedAsDuplicate ==
    last.op = "add" /\ Returned /\ last.replace = 0 /\ last.present /\ last.dup

(* The last operation made no write, and left the file, the root pointer, *)
(* the cursors and the free lists as they were.                            *)
WroteNothing ==
    /\ \A i \in 1..Len(log) : log[i].e # "w"
    /\ disk = disk0
    /\ bt = bt0

(* C34: an add rejected as a duplicate makes no write and leaves the file, *)
(* the cursors of the header, the root pointer and the free lists as they  *)
(* were, whatever the shape of the tree.                                   *)
RejectedAddWritesNothing == RejectedAsDuplicate => WroteNothing

(* A node that btree_add meets on file d on its way from the node at ptr   *)
(* to key is full: the root, or the child it reads before it goes down.    *)
RECURSIVE FullOnPath(_, _, _, _)
FullOnPath(d, ptr, key, h) ==
    IF ptr = 0 \/ h = 0 THEN FALSE
    ELSE LET n == ReadImage(d, ptr).node
             sk == SeekPos(n, key, n.numkeys - 1)
         IN  IF BtreeNodeIsFull(n) THEN TRUE
             ELSE IF sk.found \/ n.isleaf # 0 THEN FALSE
             ELSE FullOnPath(d, n.children[sk.i + 1], key, h - 1)

(* C34, as the code has it: an add rejected as a duplicate makes no write  *)
(* exactly when no node on its way to the key is full; when one is, the    *)
(* add splits it before it finds the key.  In both cases every find gives  *)
(* what it gave before the add.                                            *)
RejectedAddOnlySplits ==
    RejectedAsDuplicate =>
        /\ WroteNothing <=> ~FullOnPath(disk0, bt0.rootptr, last.key, MaxHeight)
        /\ \A k \in Keys : FindNow(k) = FindIn(disk0, bt0, k)

(* An add was rejected as a duplicate after it split a node below the root. *)
RejectedAfterSplitBelowRoot ==
    /\ RejectedAsDuplicate
    /\ ~WroteNothing
    /\ ~BtreeNodeIsFull(ReadImage(disk0, bt0.rootptr).node)

(* ------------------------------ the height ----------------------------- *)

(* The depths, the node at ptr being at depth, of the leaves of file d     *)
(* under that node; a child pointer of 0 counts as a leaf of depth 0.      *)
RECURSIVE LeafDepths(_, _, _)
LeafDepths(d, ptr, depth) ==
    IF ptr = 0 \/ depth > MaxHeight THEN {0}
    ELSE LET n == ReadImage(d, ptr).node
         IN  IF n.isleaf # 0 THEN {depth}
             ELSE UNION {LeafDepths(d, n.children[i], depth + 1) : i \in 0..n.numkeys}

(* The depths of the leaves of the tree, now and when the last operation   *)
(* began.                                                                  *)
DepthsNow == LeafDepths(disk, bt.rootptr, 1)
DepthsBefore == LeafDepths(disk0, bt0.rootptr, 1)

(* C35: all the leaves of the tree are at the same depth, and an add makes *)
(* the tree one level higher when it finds the root full, and leaves its   *)
(* height as it was when it does not.                                      *)
LeavesAtOneDepth ==
    Returned =>
        /\ \E h \in 1..MaxHeight : DepthsNow = {h}
        /\ last.op = "add" =>
              \E h \in 1..MaxHeight :
                  /\ DepthsBefore = {h}
                  /\ DepthsNow = {IF OldRoot.numkeys = BTREE_MAX_KEYS THEN h + 1 ELSE h}

(* An add found a full root over two levels of nodes and made the tree of  *)
(* three levels.                                                           *)
GrewToThreeLevels ==
    /\ last.op = "add" /\ Returned
    /\ DepthsBefore = {2}
    /\ DepthsNow = {3}

====
